---- MODULE Spec2Model ----
(***************************************************************************)
(* Model of the MRSA resistance-probability estimation engine:             *)
(*   python_backend/ai/ml_models.py    feature knowledge, the SVM and      *)
(*                                     Random Forest predictors, their     *)
(*                                     heuristic fallbacks, the ensemble   *)
(*                                     and the lazily created globals      *)
(*   python_backend/ai/predictions.py  the prediction paths (Bayesian, ML) *)
(*   python_backend/api/main.py        the HTTP handlers around them       *)
(*                                                                         *)
(* Numbers.  Python floats are modelled as exact fixed-point rationals:    *)
(* a probability p is the integer p * One, with One = 100000.  Every       *)
(* literal of the code is a multiple of 0.001 = Milli(1), and the          *)
(* classifier outputs are drawn from multiples of Milli(1), so that        *)
(* 0.45*a + 0.55*b is again an integer number of units.  Rounding of       *)
(* binary floating point is not modelled.                                  *)
(***************************************************************************)
EXTENDS Integers, Sequences, FiniteSets, TLC

VARIABLES
    SKLEARN_AVAILABLE,  \* ml_models.py:17-25, fixed at import time
    svm_model,          \* ml_models.py:489  _svm_model      (0 = None, else instance id)
    rf_model,           \* ml_models.py:490  _rf_model
    ensemble_model,     \* ml_models.py:491  _ensemble_model
    svm_inits,          \* number of SVMResistancePredictor.__init__ runs so far
    rf_inits,           \* number of RandomForestResistancePredictor.__init__ runs so far
    ens_inits,          \* number of EnsembleResistancePredictor.__init__ runs so far
    db,                 \* the stored predictions (db.add_prediction), as their types
    call,               \* the call being / last handled: operation and arguments
    result,             \* what that call returned or raised
    pc,                 \* "serving" (service), "ready"/"done" (single call), "threads"
    threads,            \* concurrent callers of the accessors: where each one is
    kb,                 \* ml_models.py:49-70, the class attributes of the extractor
    objects,            \* the trained state of the objects the three globals hold
    history,            \* the first call of a sequence of calls, and its result
    np_random           \* numpy's global RandomState: seeded by the program or
                        \* not, and the draws made since (ml_models.py:187)

vars == <<SKLEARN_AVAILABLE, svm_model, rf_model, ensemble_model,
          svm_inits, rf_inits, ens_inits, db, call, result, pc, threads,
          kb, objects, history, np_random>>

-----------------------------------------------------------------------------
(* Fixed-point arithmetic *)

One == 1000 * 100

Milli(n) == n * 100

Half == One \div 2

Min(a, b) == IF a <= b THEN a ELSE b

Max(a, b) == IF a >= b THEN a ELSE b

Max3(a, b, c) == Max(Max(a, b), c)

-----------------------------------------------------------------------------
(* Python values *)

\* Optional[...] arguments: None, or a present value.
None == [present |-> FALSE, val |-> <<>>]

Some(v) == [present |-> TRUE, val |-> v]

\* Python truthiness of an Optional[list] / Optional[str]: None and empty are falsy.
Truthy(opt) == opt.present /\ opt.val # <<>>

\* Strings that the code inspects character by character are sequences of
\* one-character strings.
UpperChars == <<"A", "B", "C", "D", "E", "F", "G", "H", "I", "J", "K", "L", "M",
                "N", "O", "P", "Q", "R", "S", "T", "U", "V", "W", "X", "Y", "Z">>

LowerChars == <<"a", "b", "c", "d", "e", "f", "g", "h", "i", "j", "k", "l", "m",
                "n", "o", "p", "q", "r", "s", "t", "u", "v", "w", "x", "y", "z">>

LowerChar(c) ==
    IF \E i \in 1..Len(UpperChars) : UpperChars[i] = c
    THEN LowerChars[CHOOSE i \in 1..Len(UpperChars) : UpperChars[i] = c]
    ELSE c

\* str.lower()
StrLower(s) == [i \in 1..Len(s) |-> LowerChar(s[i])]

\* needle in s
StrContains(s, needle) ==
    \E k \in 0..(Len(s) - Len(needle)) :
        \A j \in 1..Len(needle) : s[k + j] = needle[j]

UpperChar(c) ==
    IF \E i \in 1..Len(LowerChars) : LowerChars[i] = c
    THEN UpperChars[CHOOSE i \in 1..Len(LowerChars) : LowerChars[i] = c]
    ELSE c

\* str.upper()
StrUpper(s) == [i \in 1..Len(s) |-> UpperChar(s[i])]

\* s.replace(pat, ''): every occurrence of pat, left to right, is removed.
RECURSIVE StrRemove(_, _)
StrRemove(s, pat) ==
    IF Len(s) < Len(pat) THEN s
    ELSE IF SubSeq(s, 1, Len(pat)) = pat
    THEN StrRemove(SubSeq(s, Len(pat) + 1, Len(s)), pat)
    ELSE <<Head(s)>> \o StrRemove(Tail(s), pat)

\* str.strip(): leading and trailing blanks are dropped.
RECURSIVE StrStrip(_)
StrStrip(s) ==
    IF s = <<>> THEN s
    ELSE IF Head(s) = " " THEN StrStrip(Tail(s))
    ELSE IF s[Len(s)] = " " THEN StrStrip(SubSeq(s, 1, Len(s) - 1))
    ELSE s

-----------------------------------------------------------------------------
(* ResistanceFeatureExtractor: the knowledge tables *)

\* The class body of ResistanceFeatureExtractor: the tables as created at
\* import time.  They are class attributes, shared by every extractor.
KnowledgeBase ==
    [HIGH_RISK_MECA |-> {"G246E", "I112V", "D223N", "E125K", "N337D"},
     HIGH_RISK_PBP2A |-> {"E447K", "V311A", "T123C", "N246D", "A389T", "I517M"},
     MUTATION_FREQUENCIES |->
        [mecA |-> ("G246E" :> Milli(150) @@ "I112V" :> Milli(120) @@ "D223N" :> Milli(80)
                   @@ "E125K" :> Milli(60) @@ "N337D" :> Milli(50) @@ "G452S" :> Milli(40)
                   @@ "H267Y" :> Milli(30) @@ "A156V" :> Milli(30) @@ "T186A" :> Milli(20)
                   @@ "K219R" :> Milli(20) @@ "S403N" :> Milli(20) @@ "L461F" :> Milli(10)),
         PBP2a |-> ("E447K" :> Milli(180) @@ "V311A" :> Milli(140) @@ "T123C" :> Milli(100)
                    @@ "N246D" :> Milli(80) @@ "A389T" :> Milli(70) @@ "I517M" :> Milli(60)
                    @@ "H225Y" :> Milli(50) @@ "V406A" :> Milli(40) @@ "S461T" :> Milli(30)
                    @@ "M372I" :> Milli(30) @@ "Y446N" :> Milli(20) @@ "E239K" :> Milli(20))],
     SCCMEC_RISK |->
        (<<"I">> :> Milli(600) @@ <<"I", "I">> :> Milli(800)
         @@ <<"I", "I", "I">> :> Milli(850) @@ <<"I", "V">> :> Milli(700)
         @@ <<"I", "V", "a">> :> Milli(720) @@ <<"I", "V", "b">> :> Milli(680)
         @@ <<"I", "V", "c">> :> Milli(650) @@ <<"I", "V", "d">> :> Milli(630)
         @@ <<"V">> :> Milli(750) @@ <<"V", "I">> :> Milli(500))]

\* self.feature_extractor.HIGH_RISK_MECA, as read at the time of the call
HIGH_RISK_MECA == kb.HIGH_RISK_MECA

HIGH_RISK_PBP2A == kb.HIGH_RISK_PBP2A

\* any(m in S for m in muts)
AnyIn(muts, S) == \E i \in 1..Len(muts) : muts[i] \in S

\* any('van' in g.lower() for g in genes)
AnyVan(genes) ==
    \E i \in 1..Len(genes) : StrContains(StrLower(genes[i]), <<"v", "a", "n">>)

\* float(bool)
FloatOfBool(b) == IF b THEN 1 ELSE 0

-----------------------------------------------------------------------------
(* ResistanceFeatureExtractor.extract_features *)

\* MutationFeatures(): a fresh dataclass instance with its default values.
MutationFeatures ==
    [mecA_count |-> 0, pbp2a_count |-> 0,
     has_high_risk_mecA |-> FALSE, has_high_risk_pbp2a |-> FALSE,
     total_mutations |-> 0,
     mecA_frequency_sum |-> 0, pbp2a_frequency_sum |-> 0,
     has_sccmec |-> FALSE, sccmec_type |-> 0,
     has_van_genes |-> FALSE, has_regulatory_mutations |-> FALSE,
     strain_risk_score |-> 0]

\* Variant d.get(k, 0), which ignores the default.
DictGetZero(d, k, default) == IF k \in DOMAIN d THEN d[k] ELSE 0

\* d.get(k, default)
DictGet(d, k, default) == IF k \in DOMAIN d THEN d[k] ELSE default

\* Variant using table.setdefault(mut, 0.01), which stores the default.
FrequencyLookupSetdefault(table, mut) ==
    [value |-> DictGet(table, mut, Milli(10)),
     table |-> IF mut \in DOMAIN table THEN table ELSE table @@ (mut :> Milli(10))]

\* self.MUTATION_FREQUENCIES[gene].get(mut, 0.01): the value, and the table after
FrequencyLookup(table, mut) ==
    [value |-> DictGet(table, mut, Milli(10)), table |-> table]

\* for mut in mutations: features.<gene>_frequency_sum += <lookup>
RECURSIVE FrequencySum(_, _, _)
FrequencySum(table, mutations, sum) ==
    IF mutations = <<>> THEN [sum |-> sum, table |-> table]
    ELSE LET r == FrequencyLookup(table, Head(mutations))
         IN  FrequencySum(r.table, Tail(mutations), sum + r.value)

\* Variant testing both lists against both high-risk sets.
HighRiskFlagsMerged(k, mec_a_mutations, pbp2a_mutations) ==
    [mecA |-> AnyIn(mec_a_mutations \o pbp2a_mutations,
                    k.HIGH_RISK_MECA \cup k.HIGH_RISK_PBP2A),
     PBP2a |-> AnyIn(mec_a_mutations \o pbp2a_mutations,
                     k.HIGH_RISK_MECA \cup k.HIGH_RISK_PBP2A)]

\* any(m in self.HIGH_RISK_MECA for m in mec_a_mutations), and for PBP2a
HighRiskFlags(k, mec_a_mutations, pbp2a_mutations) ==
    [mecA |-> AnyIn(mec_a_mutations, k.HIGH_RISK_MECA),
     PBP2a |-> AnyIn(pbp2a_mutations, k.HIGH_RISK_PBP2A)]

\* Variant testing the argument against None instead of its truth value.
HasSccmecNotNone(sccmec_type) == sccmec_type.present

\* if sccmec_type:
HasSccmec(sccmec_type) == Truthy(sccmec_type)

\* sccmec_type.replace('type-', '').replace('type', '').strip()
SccmecClean(sccmec_type) ==
    StrStrip(StrRemove(StrRemove(sccmec_type,
        <<"t", "y", "p", "e", "-">>), <<"t", "y", "p", "e">>))

\* self.SCCMEC_RISK.get(sccmec_clean, 0.5)
SccmecRisk(table, sccmec_type) ==
    DictGet(table, SccmecClean(sccmec_type), Milli(500))

\* ['meci', 'mecr1', 'blai', 'blar1']
RegulatoryGenes ==
    {<<"m", "e", "c", "i">>, <<"m", "e", "c", "r", "1">>,
     <<"b", "l", "a", "i">>, <<"b", "l", "a", "r", "1">>}

\* Variant that compares the names as given, without g.lower().
AnyRegulatoryExact(genes) == \E i \in 1..Len(genes) : genes[i] \in RegulatoryGenes

\* any(g.lower() in [...] for g in additional_genes)
AnyRegulatory(genes) == \E i \in 1..Len(genes) : StrLower(genes[i]) \in RegulatoryGenes

\* features.total_mutations = features.mecA_count + features.pbp2a_count
TotalMutations(mecA_count, pbp2a_count) == mecA_count + pbp2a_count

\* Variant marking an absent cassette with the sentinel -1.0.
SccmecFieldSentinel(has_sccmec, sccmec_type) == IF has_sccmec THEN sccmec_type ELSE -One

\* features.sccmec_type if features.has_sccmec else 0.0
SccmecField(has_sccmec, sccmec_type) == IF has_sccmec THEN sccmec_type ELSE 0

\* np.array([...]): the 12 fields as floats, each in units of 1/One.
FeatureVector(f) ==
    <<One * f.mecA_count,
      One * f.pbp2a_count,
      One * f.total_mutations,
      One * FloatOfBool(f.has_high_risk_mecA),
      One * FloatOfBool(f.has_high_risk_pbp2a),
      f.mecA_frequency_sum,
      f.pbp2a_frequency_sum,
      One * FloatOfBool(f.has_sccmec),
      SccmecField(f.has_sccmec, f.sccmec_type),
      One * FloatOfBool(f.has_van_genes),
      One * FloatOfBool(f.has_regulatory_mutations),
      f.strain_risk_score>>

\* extract_features on the tables k: the features, the vector, the tables after.
ExtractFeatures(k, mec_a_mutations, pbp2a_mutations, sccmec_type, additional_genes) ==
    LET flags == HighRiskFlags(k, mec_a_mutations, pbp2a_mutations)
        mec == FrequencySum(k.MUTATION_FREQUENCIES.mecA, mec_a_mutations,
                            MutationFeatures.mecA_frequency_sum)
        pbp == FrequencySum(k.MUTATION_FREQUENCIES.PBP2a, pbp2a_mutations,
                            MutationFeatures.pbp2a_frequency_sum)
        risk == IF HasSccmec(sccmec_type)
                THEN SccmecRisk(k.SCCMEC_RISK, sccmec_type.val)
                ELSE MutationFeatures.sccmec_type
        f == [MutationFeatures EXCEPT
                !.mecA_count = Len(mec_a_mutations),
                !.pbp2a_count = Len(pbp2a_mutations),
                !.total_mutations = TotalMutations(Len(mec_a_mutations),
                                                   Len(pbp2a_mutations)),
                !.has_high_risk_mecA = flags.mecA,
                !.has_high_risk_pbp2a = flags.PBP2a,
                !.mecA_frequency_sum = mec.sum,
                !.pbp2a_frequency_sum = pbp.sum,
                !.has_sccmec = HasSccmec(sccmec_type),
                !.sccmec_type = risk,
                !.strain_risk_score =
                    IF HasSccmec(sccmec_type) THEN risk
                    ELSE MutationFeatures.strain_risk_score,
                !.has_van_genes =
                    IF Truthy(additional_genes) THEN AnyVan(additional_genes.val)
                    ELSE MutationFeatures.has_van_genes,
                !.has_regulatory_mutations =
                    IF Truthy(additional_genes) THEN AnyRegulatory(additional_genes.val)
                    ELSE MutationFeatures.has_regulatory_mutations]
    IN  [raised |-> "", features |-> f, vector |-> FeatureVector(f),
         kb |-> [k EXCEPT !.MUTATION_FREQUENCIES =
                             [mecA |-> mec.table, PBP2a |-> pbp.table]]]

-----------------------------------------------------------------------------
(* Results of the predictors *)

Antibiotics == {"oxacillin", "vancomycin", "ceftaroline"}

\* {'probability': p, 'prediction': int(p > 0.5), 'confidence': max(p, 1 - p)}
PredictionEntry(p) ==
    [probability |-> p,
     prediction  |-> IF p > Half THEN 1 ELSE 0,
     confidence  |-> Max(p, One - p)]

NoPredictions == [a \in Antibiotics |-> PredictionEntry(0)]

\* An exception leaving a function.
Raised(exc) ==
    [raised |-> exc, model |-> "", predictions |-> NoPredictions]

\* A predictor's result dictionary.
Returned(model, oxa, van, cef) ==
    [raised |-> "", model |-> model,
     predictions |-> [a \in Antibiotics |->
        PredictionEntry(CASE a = "oxacillin" -> oxa
                          [] a = "vancomycin" -> van
                          [] OTHER -> cef)]]

-----------------------------------------------------------------------------
(* The heuristic fallbacks (ml_models.py:271-302 and 389-421) *)

\* has_van = additional_genes and any('van' in g.lower() for g in additional_genes)
\* Python's `and` yields its left operand when that operand is falsy, so the
\* value is None for None, the empty list for [], and a bool otherwise.
HasVanExpr(additional_genes) ==
    IF ~additional_genes.present THEN [type |-> "NoneType", b |-> FALSE]
    ELSE IF additional_genes.val = <<>> THEN [type |-> "list", b |-> FALSE]
    ELSE [type |-> "bool", b |-> AnyVan(additional_genes.val)]

\* float(x) accepts a bool and raises TypeError for None and for a list.
FloatRaises(x) == x.type # "bool"

\* Variant without the min(0.95, ...) cap.
SvmHeuristicOxaUncapped(mecA_count, has_high_risk_mecA) ==
    Milli(300) + mecA_count * Milli(120) + FloatOfBool(has_high_risk_mecA) * Milli(150)

SvmHeuristicOxa(mecA_count, has_high_risk_mecA) ==
    Min(Milli(950), Milli(300) + Milli(120) * mecA_count
                    + Milli(150) * FloatOfBool(has_high_risk_mecA))

\* Variant in which the mecA count is subtracted instead of added.
SvmHeuristicVanDifference(mecA_count, pbp2a_count, has_van) ==
    Min(Milli(300), Milli(50) + Milli(400) * FloatOfBool(has_van)
                    + Milli(20) * (pbp2a_count - mecA_count))

SvmHeuristicVan(mecA_count, pbp2a_count, has_van) ==
    Min(Milli(300), Milli(50) + Milli(400) * FloatOfBool(has_van)
                    + Milli(20) * (mecA_count + pbp2a_count))

SvmHeuristicCef(mecA_count, pbp2a_count, has_high_risk_pbp2a) ==
    Min(Milli(850), Milli(200) + Milli(100) * pbp2a_count
                    + Milli(120) * FloatOfBool(has_high_risk_pbp2a)
                    + Milli(50) * mecA_count)

\* SVMResistancePredictor._heuristic_predict
SvmHeuristicPredict(mec_a_mutations, pbp2a_mutations, additional_genes) ==
    LET mecA_count == Len(mec_a_mutations)
        pbp2a_count == Len(pbp2a_mutations)
        has_high_risk_mecA == AnyIn(mec_a_mutations, HIGH_RISK_MECA)
        has_high_risk_pbp2a == AnyIn(pbp2a_mutations, HIGH_RISK_PBP2A)
        has_van == HasVanExpr(additional_genes)
    IN  IF FloatRaises(has_van) THEN Raised("TypeError")
        ELSE Returned("SVM (heuristic fallback)",
                 SvmHeuristicOxa(mecA_count, has_high_risk_mecA),
                 SvmHeuristicVan(mecA_count, pbp2a_count, has_van.b),
                 SvmHeuristicCef(mecA_count, pbp2a_count, has_high_risk_pbp2a))

\* Variant with the constants of the SVM predictor's fallback.
RfHeuristicOxaMerged(mecA_count, has_high_risk_mecA) ==
    Min(Milli(950), Milli(300) + Milli(120) * mecA_count
                    + Milli(150) * FloatOfBool(has_high_risk_mecA))

RfHeuristicOxa(mecA_count, has_high_risk_mecA) ==
    Min(Milli(920), Milli(350) + Milli(100) * mecA_count
                    + Milli(180) * FloatOfBool(has_high_risk_mecA))

RfHeuristicVan(mecA_count, pbp2a_count, has_van) ==
    Min(Milli(250), Milli(30) + Milli(450) * FloatOfBool(has_van)
                    + Milli(15) * (mecA_count + pbp2a_count))

RfHeuristicCef(mecA_count, pbp2a_count, has_high_risk_pbp2a) ==
    Min(Milli(820), Milli(180) + Milli(110) * pbp2a_count
                    + Milli(140) * FloatOfBool(has_high_risk_pbp2a)
                    + Milli(40) * mecA_count)

\* RandomForestResistancePredictor._heuristic_predict
RfHeuristicPredict(mec_a_mutations, pbp2a_mutations, additional_genes) ==
    LET mecA_count == Len(mec_a_mutations)
        pbp2a_count == Len(pbp2a_mutations)
        has_high_risk_mecA == AnyIn(mec_a_mutations, HIGH_RISK_MECA)
        has_high_risk_pbp2a == AnyIn(pbp2a_mutations, HIGH_RISK_PBP2A)
        has_van == HasVanExpr(additional_genes)
    IN  IF FloatRaises(has_van) THEN Raised("TypeError")
        ELSE Returned("Random Forest (heuristic fallback)",
                 RfHeuristicOxa(mecA_count, has_high_risk_mecA),
                 RfHeuristicVan(mecA_count, pbp2a_count, has_van.b),
                 RfHeuristicCef(mecA_count, pbp2a_count, has_high_risk_pbp2a))

-----------------------------------------------------------------------------
(* The predictors (ml_models.py:233-269, 355-387, 444-485) *)

\* SVMResistancePredictor.predict.  With scikit-learn present self.models is
\* non-empty and the fitted SVC answers; proba is what predict_proba returns
\* for the positive class, per antibiotic (an opaque value in [0,1]), and
\* confidence = max(proba) = max(p, 1 - p) for the two classes.
SvmPredict(mec_a_mutations, pbp2a_mutations, sccmec_type, additional_genes, proba) ==
    IF SKLEARN_AVAILABLE
    THEN Returned("SVM", proba.oxacillin, proba.vancomycin, proba.ceftaroline)
    ELSE SvmHeuristicPredict(mec_a_mutations, pbp2a_mutations, additional_genes)

\* RandomForestResistancePredictor.predict
RfPredict(mec_a_mutations, pbp2a_mutations, sccmec_type, additional_genes, proba) ==
    IF SKLEARN_AVAILABLE
    THEN Returned("Random Forest", proba.oxacillin, proba.vancomycin, proba.ceftaroline)
    ELSE RfHeuristicPredict(mec_a_mutations, pbp2a_mutations, additional_genes)

\* The ensemble weights, in hundredths.
svm_weight == 45

rf_weight == 55

\* Variant with the two weights exchanged.
EnsembleProbSwapped(svm_prob, rf_prob) ==
    (rf_weight * svm_prob + svm_weight * rf_prob) \div 100

\* ensemble_prob = svm_weight * svm_prob + rf_weight * rf_prob
EnsembleProb(svm_prob, rf_prob) ==
    (svm_weight * svm_prob + rf_weight * rf_prob) \div 100

EnsembleEntry(svm_prob, rf_prob) ==
    LET ensemble_prob == EnsembleProb(svm_prob, rf_prob)
    IN  [probability     |-> ensemble_prob,
         prediction      |-> IF ensemble_prob > Half THEN 1 ELSE 0,
         confidence      |-> Max(ensemble_prob, One - ensemble_prob),
         svm_probability |-> svm_prob,
         rf_probability  |-> rf_prob]

NoEnsemblePredictions == [a \in Antibiotics |-> EnsembleEntry(0, 0)]

EnsembleRaised(exc) ==
    [raised |-> exc, model |-> "", predictions |-> NoEnsemblePredictions,
     individual_models |-> [svm |-> Raised(exc), random_forest |-> Raised(exc)],
     weights |-> [svm |-> 0, random_forest |-> 0]]

\* EnsembleResistancePredictor.predict; oracle.svm and oracle.rf are the two
\* classifiers' predict_proba answers.
EnsemblePredict(mec_a_mutations, pbp2a_mutations, sccmec_type, additional_genes, oracle) ==
    LET svm_result == SvmPredict(mec_a_mutations, pbp2a_mutations, sccmec_type,
                                 additional_genes, oracle.svm)
        rf_result == RfPredict(mec_a_mutations, pbp2a_mutations, sccmec_type,
                               additional_genes, oracle.rf)
    IN  IF svm_result.raised # "" THEN EnsembleRaised(svm_result.raised)
        ELSE IF rf_result.raised # "" THEN EnsembleRaised(rf_result.raised)
        ELSE [raised |-> "",
              model |-> "Ensemble (SVM + Random Forest)",
              predictions |-> [a \in Antibiotics |->
                  EnsembleEntry(svm_result.predictions[a].probability,
                                rf_result.predictions[a].probability)],
              individual_models |-> [svm |-> svm_result, random_forest |-> rf_result],
              weights |-> [svm |-> svm_weight, random_forest |-> rf_weight]]

-----------------------------------------------------------------------------
(* predictions.py: the calibration shared by the prediction paths *)

\* Variant with exclusive lower bounds.
ThreatLevelExclusive(max_prob) ==
    IF max_prob > Milli(750) THEN "High"
    ELSE IF max_prob > Milli(500) THEN "Moderate"
    ELSE IF max_prob > Milli(250) THEN "Low"
    ELSE "Very Low"

\* Variant whose Moderate bucket starts at 0.6.
ThreatLevelLate(max_prob) ==
    IF max_prob >= Milli(750) THEN "High"
    ELSE IF max_prob >= Milli(600) THEN "Moderate"
    ELSE IF max_prob >= Milli(250) THEN "Low"
    ELSE "Very Low"

\* 'High' if max_prob >= 0.75 else 'Moderate' if max_prob >= 0.5
\*        else 'Low' if max_prob >= 0.25 else 'Very Low'
ThreatLevel(max_prob) ==
    IF max_prob >= Milli(750) THEN "High"
    ELSE IF max_prob >= Milli(500) THEN "Moderate"
    ELSE IF max_prob >= Milli(250) THEN "Low"
    ELSE "Very Low"

\* The overall confidence is kept in twelfths of a unit, so that
\* raw_avg * 0.25 = (oxa + van + cef) / 3 / 4 stays an integer:
\* Twelfths(x) is the value x, and the sum oxa + van + cef is raw_avg * 0.25.
Twelfths(x) == 12 * x

\* Variant without the clamp into [0.55, 0.95].
UnclampedConfidence(oxa, van, cef, mec_count, pbp_count) ==
    Twelfths(Milli(600)) + (oxa + van + cef)
    + Min(6, mec_count + pbp_count) * Twelfths(Milli(20))

\* min(0.95, max(0.55, 0.6 + raw_avg * 0.25 + min(6, mec_count + pbp_count) * 0.02))
CalibratedConfidence(oxa, van, cef, mec_count, pbp_count) ==
    Min(Twelfths(Milli(950)),
        Max(Twelfths(Milli(550)),
            Twelfths(Milli(600)) + (oxa + van + cef)
            + Min(6, mec_count + pbp_count) * Twelfths(Milli(20))))

\* [{'name': f'{gene}:{m}', 'weight': min(1, base + i * step)}
\*  for i, m in enumerate(mutations[:limit])]
Contributions(gene, mutations, limit, base, step) ==
    [k \in 1..Min(limit, Len(mutations)) |->
        [name   |-> [gene |-> gene, mutation |-> mutations[k]],
         weight |-> Min(One, base + (k - 1) * step)]]

\* Variant with the limits and weights of the ML path (predictions.py:285-290).
MlStyleContrib(mec_a_mutations, pbp2a_mutations) ==
    Contributions("mecA", mec_a_mutations, 4, Milli(500), Milli(50))
    \o Contributions("PBP2a", pbp2a_mutations, 4, Milli(450), Milli(50))

\* The contributing features of the Bayesian path and of its fallback
\* (predictions.py:116-121 and 170-173).
BayesianContrib(mec_a_mutations, pbp2a_mutations) ==
    Contributions("mecA", mec_a_mutations, 6, Milli(450), Milli(60))
    \o Contributions("PBP2a", pbp2a_mutations, 6, Milli(400), Milli(60))

\* Variant that tests the lists against None, which they never are.
NoMutationsIsNone(mec_a_mutations, pbp2a_mutations) == FALSE

\* not mec_a_mutations and not pbp2a_mutations
NoMutations(mec_a_mutations, pbp2a_mutations) ==
    mec_a_mutations = <<>> /\ pbp2a_mutations = <<>>

-----------------------------------------------------------------------------
(* predictions.py: the Bayesian path *)

\* re.search(r'van|thicken|cell\s*wall', (profile or '').lower())
HasVanSignals(vancomycin_resistance_profile) ==
    LET text == IF Truthy(vancomycin_resistance_profile)
                THEN StrLower(vancomycin_resistance_profile.val) ELSE <<>>
        cell == <<"c", "e", "l", "l">>
        wall == <<"w", "a", "l", "l">>
    IN  \/ StrContains(text, <<"v", "a", "n">>)
        \/ StrContains(text, <<"t", "h", "i", "c", "k", "e", "n">>)
        \/ \E k \in 0..Len(text), n \in 0..Len(text) :
              /\ k + 4 + n + 4 <= Len(text)
              /\ SubSeq(text, k + 1, k + 4) = cell
              /\ \A j \in 1..n : text[k + 4 + j] = " "
              /\ SubSeq(text, k + 4 + n + 1, k + 4 + n + 4) = wall

BayesianRaised(exc, steps) ==
    [raised |-> exc, fallback |-> FALSE,
     oxacillinResistanceProbability |-> 0,
     vancomycinResistanceProbability |-> 0,
     ceftarolineResistanceProbability |-> 0,
     threatLevel |-> "", confidenceLevel |-> 0,
     contributingFeatures |-> <<>>, steps |-> steps]

FallbackOxa(mec_count, pbp_count) ==
    Min(Milli(950), Milli(400) + mec_count * Milli(120) + pbp_count * Milli(80))

FallbackVan(has_van_signals) ==
    IF has_van_signals THEN Milli(220) ELSE Milli(100)

\* Variant without the cap at 0.85.
FallbackCefUncapped(mec_count, pbp_count) ==
    Milli(250) + (mec_count + pbp_count) * Milli(80)

FallbackCef(mec_count, pbp_count) ==
    Min(Milli(250) + (mec_count + pbp_count) * Milli(80), Milli(850))

\* _bayesian_fallback
BayesianFallback(mec_a_mutations, pbp2a_mutations, vancomycin_resistance_profile, steps) ==
    LET mec_count == Len(mec_a_mutations)
        pbp_count == Len(pbp2a_mutations)
        oxa_prob == FallbackOxa(mec_count, pbp_count)
        van_prob == FallbackVan(HasVanSignals(vancomycin_resistance_profile))
        cef_prob == FallbackCef(mec_count, pbp_count)
    IN  [raised |-> "", fallback |-> TRUE,
         oxacillinResistanceProbability |-> oxa_prob,
         vancomycinResistanceProbability |-> van_prob,
         ceftarolineResistanceProbability |-> cef_prob,
         threatLevel |-> ThreatLevel(Max3(oxa_prob, van_prob, cef_prob)),
         confidenceLevel |->
             CalibratedConfidence(oxa_prob, van_prob, cef_prob, mec_count, pbp_count),
         contributingFeatures |-> BayesianContrib(mec_a_mutations, pbp2a_mutations),
         steps |-> steps \o <<"_bayesian_fallback">>]

\* The body of the try block of predict_resistance_bayesian once generate_json
\* has returned a dictionary whose three probabilities float() accepts.
BayesianCalibrated(mec_a_mutations, pbp2a_mutations, oxa, van, cef, steps) ==
    LET mec_count == Len(mec_a_mutations)
        pbp_count == Len(pbp2a_mutations)
        max_prob == Max3(oxa, van, cef)
    IN  [raised |-> "", fallback |-> FALSE,
         oxacillinResistanceProbability |-> oxa,
         vancomycinResistanceProbability |-> van,
         ceftarolineResistanceProbability |-> cef,
         threatLevel |-> ThreatLevel(max_prob),
         confidenceLevel |-> CalibratedConfidence(oxa, van, cef, mec_count, pbp_count),
         contributingFeatures |-> BayesianContrib(mec_a_mutations, pbp2a_mutations),
         steps |-> steps]

\* predict_resistance_bayesian.  dataset_ok: the dataset manager's SQLite
\* reads succeed (they run before the try block).  llm: what generate_json
\* does: "raise" (any exception), "malformed" (a reply whose post-processing
\* raises, e.g. a probability float() rejects) or "reply" with three numbers.
PredictResistanceBayesian(mec_a_mutations, pbp2a_mutations, vancomycin_resistance_profile, dataset_ok, llm) ==
    IF NoMutations(mec_a_mutations, pbp2a_mutations)
    THEN BayesianRaised("ValueError", <<"validate">>)
    ELSE IF ~dataset_ok
    THEN BayesianRaised("sqlite3.Error", <<"validate", "get_dataset_manager">>)
    ELSE LET steps == <<"validate", "get_dataset_manager", "generate_json">>
         IN  IF llm.kind = "reply"
             THEN BayesianCalibrated(mec_a_mutations, pbp2a_mutations,
                                     llm.oxa, llm.van, llm.cef, steps)
             ELSE BayesianFallback(mec_a_mutations, pbp2a_mutations,
                                   vancomycin_resistance_profile, steps)

-----------------------------------------------------------------------------
(* ml_models.py:488-515: the lazily created global model instances *)

\* The trained state of a predictor object: how often its scaler and its
\* three classifiers have been fitted, and whether it holds the cohort.
NoObject == [scaler_fits |-> 0, model_fits |-> 0, training_data |-> FALSE]

\* The object a finished SVMResistancePredictor.__init__ leaves
\* (ml_models.py:154-183): fitted only when scikit-learn is present.
SvmObject ==
    [scaler_fits |-> FloatOfBool(SKLEARN_AVAILABLE),
     model_fits |-> FloatOfBool(SKLEARN_AVAILABLE), training_data |-> TRUE]

\* The object a finished RandomForestResistancePredictor.__init__ leaves
\* (ml_models.py:329-353): it has no scaler.
RfObject ==
    [scaler_fits |-> 0,
     model_fits |-> FloatOfBool(SKLEARN_AVAILABLE), training_data |-> TRUE]

\* What the three globals hold before any accessor ran: None.
NoObjects ==
    [svm_model |-> NoObject, rf_model |-> NoObject,
     ensemble_model |-> [svm |-> NoObject, rf |-> NoObject]]

\* The process state the prediction code can reach: the module globals, the
\* constructor counters, the objects of the globals and the class attributes.
Globals ==
    [svm_model |-> svm_model, rf_model |-> rf_model, ensemble_model |-> ensemble_model,
     svm_inits |-> svm_inits, rf_inits |-> rf_inits, ens_inits |-> ens_inits,
     kb |-> kb, objects |-> objects, np_random |-> np_random]

\* The number of draws one generation of the training cohort makes.
CohortDraws == 3

\* numpy's generator as the import leaves it: seeded from the system's entropy.
Unseeded == [seeded |-> FALSE, draws |-> 0]

\* np.random.seed(42)
Seeded == [seeded |-> TRUE, draws |-> 0]

\* One np.random.poisson(...) or np.random.random(): the value drawn is the
\* one at the generator's position in the stream of its seed.
Draw(rng) == [value |-> rng.draws + 1, rng |-> [rng EXCEPT !.draws = @ + 1]]

\* The cohort that _generate_training_data run alone produces from the seed.
RECURSIVE GenerateTrainingData(_, _)
GenerateTrainingData(rng, cohort) ==
    IF Len(cohort) = CohortDraws THEN [cohort |-> cohort, rng |-> rng]
    ELSE LET d == Draw(rng)
         IN  GenerateTrainingData(d.rng, Append(cohort, d.value))

\* SVMResistancePredictor.__init__: generates the training cohort and, with
\* scikit-learn present, fits the three SVCs.
SvmInit(g) ==
    [g EXCEPT !.svm_inits = @ + 1,
              !.np_random = GenerateTrainingData(Seeded, <<>>).rng]

\* RandomForestResistancePredictor.__init__: _initialize_pretrained_weights
\* constructs an SVMResistancePredictor to borrow its training data.
RfInit(g) == [SvmInit(g) EXCEPT !.rf_inits = @ + 1]

\* EnsembleResistancePredictor.__init__: self.svm = SVM...(); self.rf = RF...()
EnsembleInit(g) == [RfInit(SvmInit(g)) EXCEPT !.ens_inits = @ + 1]

\* get_svm_model, run without interruption; an instance is named by the
\* serial number of the constructor run that made it.
GetSvmModel(g) ==
    IF g.svm_model = 0
    THEN LET h == SvmInit(g)
         IN  [h EXCEPT !.svm_model = h.svm_inits, !.objects.svm_model = SvmObject]
    ELSE g

\* get_rf_model
GetRfModel(g) ==
    IF g.rf_model = 0
    THEN LET h == RfInit(g)
         IN  [h EXCEPT !.rf_model = h.rf_inits, !.objects.rf_model = RfObject]
    ELSE g

\* get_ensemble_model
GetEnsembleModel(g) ==
    IF g.ensemble_model = 0
    THEN LET h == EnsembleInit(g)
         IN  [h EXCEPT !.ensemble_model = h.ens_inits,
                       !.objects.ensemble_model = [svm |-> SvmObject, rf |-> RfObject]]
    ELSE g

-----------------------------------------------------------------------------
(* predictions.py: the ML path *)

MlRaised(exc, steps) ==
    [raised |-> exc, model |-> "", predictions |-> NoPredictions,
     oxacillinResistanceProbability |-> 0,
     vancomycinResistanceProbability |-> 0,
     ceftarolineResistanceProbability |-> 0,
     threatLevel |-> "", confidenceLevel |-> 0,
     contributingFeatures |-> <<>>, steps |-> steps]

\* The contributing features of the ML path (predictions.py:285-290).
MlContrib(mec_a_mutations, pbp2a_mutations) ==
    Contributions("mecA", mec_a_mutations, 4, Milli(500), Milli(50))
    \o Contributions("PBP2a", pbp2a_mutations, 4, Milli(450), Milli(50))

\* Variant that remembers the codes it has seen as high-risk mecA codes.
HeuristicEffectsLearning(g, mec_a_mutations, pbp2a_mutations, additional_genes) ==
    [g EXCEPT !.kb.HIGH_RISK_MECA = @ \cup {mec_a_mutations[i] : i \in DOMAIN mec_a_mutations}]

\* The process state after _heuristic_predict(...) (ml_models.py:271-302 and
\* 389-421): the method binds locals only; it assigns no attribute of self, of
\* the extractor or of the module, and calls len, any, min, max, float, int.
HeuristicEffects(g, mec_a_mutations, pbp2a_mutations, additional_genes) == g

\* The process state after model.predict(...): each predictor's predict calls
\* extract_features first (ml_models.py:246 and 363), then, without fitted
\* models, _heuristic_predict; scaler.transform and predict_proba assign
\* nothing.  The ensemble calls the SVM predictor, then the Random Forest one
\* unless the first call raised (ml_models.py:455-456).
PredictEffects(model_type, g, mec_a_mutations, pbp2a_mutations, sccmec_type, additional_genes) ==
    LET Extracted(h) ==
            [h EXCEPT !.kb = ExtractFeatures(h.kb, mec_a_mutations, pbp2a_mutations,
                                             sccmec_type, additional_genes).kb]
        Predicted(h) ==
            IF SKLEARN_AVAILABLE THEN Extracted(h)
            ELSE HeuristicEffects(Extracted(h), mec_a_mutations, pbp2a_mutations,
                                  additional_genes)
        first_raises == ~SKLEARN_AVAILABLE /\ FloatRaises(HasVanExpr(additional_genes))
    IN  IF model_type \in {"svm", "random_forest"} \/ first_raises THEN Predicted(g)
        ELSE Predicted(Predicted(g))

\* model.predict(...) for the model that model_type selects.
ModelPredict(model_type, mec_a_mutations, pbp2a_mutations, sccmec_type, additional_genes, oracle) ==
    IF model_type = "svm"
    THEN SvmPredict(mec_a_mutations, pbp2a_mutations, sccmec_type,
                    additional_genes, oracle.svm)
    ELSE IF model_type = "random_forest"
    THEN RfPredict(mec_a_mutations, pbp2a_mutations, sccmec_type,
                   additional_genes, oracle.rf)
    ELSE EnsemblePredict(mec_a_mutations, pbp2a_mutations, sccmec_type,
                         additional_genes, oracle)

\* predict_resistance_ml: the new globals and what the call returns or raises.
\* confidenceLevel, the mean of the three confidences, is kept in thirds of a
\* unit (their sum).
PredictResistanceMl(g, mec_a_mutations, pbp2a_mutations, model_type, sccmec_type, additional_genes, oracle) ==
    IF NoMutations(mec_a_mutations, pbp2a_mutations)
    THEN [g |-> g, out |-> MlRaised("ValueError", <<"validate">>)]
    ELSE
    LET g1 == IF model_type = "svm" THEN GetSvmModel(g)
              ELSE IF model_type = "random_forest" THEN GetRfModel(g)
              ELSE GetEnsembleModel(g)
        g2 == PredictEffects(model_type, g1, mec_a_mutations, pbp2a_mutations,
                             sccmec_type, additional_genes)
        steps == <<"validate", "get_model", "extract_features", "predict">>
        res == ModelPredict(model_type, mec_a_mutations, pbp2a_mutations,
                            sccmec_type, additional_genes, oracle)
        predictions == res.predictions
        max_prob == Max3(predictions["oxacillin"].probability,
                         predictions["vancomycin"].probability,
                         predictions["ceftaroline"].probability)
    IN  IF res.raised # "" THEN [g |-> g2, out |-> MlRaised(res.raised, steps)]
        ELSE [g |-> g2,
              out |-> [raised |-> "",
                       model |-> res.model,
                       predictions |-> predictions,
                       oxacillinResistanceProbability |->
                           predictions["oxacillin"].probability,
                       vancomycinResistanceProbability |->
                           predictions["vancomycin"].probability,
                       ceftarolineResistanceProbability |->
                           predictions["ceftaroline"].probability,
                       threatLevel |-> ThreatLevel(max_prob),
                       confidenceLevel |-> predictions["oxacillin"].confidence
                                           + predictions["vancomycin"].confidence
                                           + predictions["ceftaroline"].confidence,
                       contributingFeatures |->
                           MlContrib(mec_a_mutations, pbp2a_mutations),
                       steps |-> steps]]

-----------------------------------------------------------------------------
(* predictions.py: the oxacillin specialist *)

\* Optional number.
NoNumber == [present |-> FALSE, val |-> 0]

\* high_risk_mecA and high_risk_pbp2a of predict_oxacillin_resistance
OXA_HIGH_RISK_MECA == {"G246E", "I112V", "D223N", "E125K"}

OXA_HIGH_RISK_PBP2A == {"E447K", "V311A", "N246D", "A389T"}

\* sccmec_risks of predict_oxacillin_resistance: label -> (risk, note)
OXA_SCCMEC_RISKS ==
    {[key |-> <<"I">>, risk |-> Milli(600),
      note |-> "HA-MRSA associated, moderate resistance"],
     [key |-> <<"I", "I">>, risk |-> Milli(800),
      note |-> "HA-MRSA, high resistance, common in healthcare settings"],
     [key |-> <<"I", "I", "I">>, risk |-> Milli(850),
      note |-> "HA-MRSA, high resistance, large cassette"],
     [key |-> <<"I", "V">>, risk |-> Milli(700),
      note |-> "CA-MRSA associated (USA300), moderate-high resistance"],
     [key |-> <<"I", "V", "a">>, risk |-> Milli(720),
      note |-> "CA-MRSA variant"],
     [key |-> <<"V">>, risk |-> Milli(750),
      note |-> "CA-MRSA, moderate-high resistance"]}

\* sccmec_type.replace('type-', '').replace('type', '').strip().upper()
OxaSccmecClean(sccmec_type) ==
    StrUpper(StrStrip(StrRemove(StrRemove(sccmec_type,
        <<"t", "y", "p", "e", "-">>), <<"t", "y", "p", "e">>)))

\* (sccmec_risk, sccmec_analysis) after the SCCmec type analysis
OxaSccmec(sccmec_type) ==
    IF ~Truthy(sccmec_type) THEN [risk |-> Milli(500), note |-> ""]
    ELSE LET sccmec_clean == OxaSccmecClean(sccmec_type.val)
         IN  IF \E e \in OXA_SCCMEC_RISKS : e.key = sccmec_clean
             THEN LET e == CHOOSE e \in OXA_SCCMEC_RISKS : e.key = sccmec_clean
                  IN  [risk |-> e.risk, note |-> e.note]
             ELSE [risk |-> Milli(500), note |-> "SCCmec type {sccmec_type} detected"]

\* The reported probability is kept in tenths of a unit, so that
\* adjusted_prob * 0.7 + sccmec_risk * 0.3 stays an integer.
Tenths(x) == 10 * x

\* Variant that blends in the default risk 0.5 when no type is supplied.
OxaAdjustedProbAlways(probability, sccmec_type, sccmec_risk) ==
    Min(Tenths(Milli(980)), probability * 7 + sccmec_risk * 3)

\* adjusted_prob after "Adjust probability based on SCCmec"
OxaAdjustedProb(probability, sccmec_type, sccmec_risk) ==
    IF Truthy(sccmec_type)
    THEN Min(Tenths(Milli(980)), probability * 7 + sccmec_risk * 3)
    ELSE Tenths(probability)

\* [f'{gene}({m})' for m in mutations if m in high_risk]
RECURSIVE DetectedHighRisk(_, _, _)
DetectedHighRisk(gene, mutations, high_risk) ==
    IF mutations = <<>> THEN <<>>
    ELSE (IF Head(mutations) \in high_risk
          THEN <<[gene |-> gene, mutation |-> Head(mutations)]>> ELSE <<>>)
         \o DetectedHighRisk(gene, Tail(mutations), high_risk)

\* The per-mutation contributing features of the oxacillin specialist.
OxaContributions(gene, mutations, high_risk, high_weight, low_weight) ==
    [k \in 1..Min(4, Len(mutations)) |->
        [name   |-> [gene |-> gene, mutation |-> mutations[k]],
         weight |-> IF mutations[k] \in high_risk THEN high_weight ELSE low_weight]]

OxaRaised(exc, steps) ==
    [raised |-> exc, oxacillinResistanceProbability |-> 0, prediction |-> "",
     threatLevel |-> "", confidenceLevel |-> 0, highRiskMutations |-> <<>>,
     sccmecType |-> None, sccmecRisk |-> NoNumber, sccmecAnalysis |-> "",
     contributingFeatures |-> <<>>, mlModelResults |-> EnsembleRaised(exc),
     steps |-> steps]

\* predict_oxacillin_resistance: the new globals and what the call returns
\* or raises.  The SCCmec entry of contributingFeatures is named by the
\* placeholder "{sccmec_type}"; the label itself is the sccmecType field.
PredictOxacillinResistance(g, mec_a_mutations, pbp2a_mutations, sccmec_type, additional_genes, oracle) ==
    IF NoMutations(mec_a_mutations, pbp2a_mutations)
    THEN [g |-> g, out |-> OxaRaised("ValueError", <<"validate">>)]
    ELSE
    LET g2 == PredictEffects("ensemble", GetEnsembleModel(g), mec_a_mutations,
                             pbp2a_mutations, sccmec_type, additional_genes)
        steps == <<"validate", "get_model", "extract_features", "predict">>
        ml_result == EnsemblePredict(mec_a_mutations, pbp2a_mutations, sccmec_type,
                                     additional_genes, oracle)
        oxa_prediction == ml_result.predictions["oxacillin"]
        detected_high_risk ==
            DetectedHighRisk("mecA", mec_a_mutations, OXA_HIGH_RISK_MECA)
            \o DetectedHighRisk("PBP2a", pbp2a_mutations, OXA_HIGH_RISK_PBP2A)
        scc == OxaSccmec(sccmec_type)
        adjusted_prob ==
            OxaAdjustedProb(oxa_prediction.probability, sccmec_type, scc.risk)
    IN  IF ml_result.raised # "" THEN [g |-> g2, out |-> OxaRaised(ml_result.raised, steps)]
        ELSE [g |-> g2,
              out |-> [raised |-> "",
                       oxacillinResistanceProbability |-> adjusted_prob,
                       prediction |-> IF adjusted_prob > Tenths(Half)
                                      THEN "Resistant" ELSE "Susceptible",
                       threatLevel |->
                           IF adjusted_prob >= Tenths(Milli(750)) THEN "High"
                           ELSE IF adjusted_prob >= Tenths(Milli(500)) THEN "Moderate"
                           ELSE IF adjusted_prob >= Tenths(Milli(250)) THEN "Low"
                           ELSE "Very Low",
                       confidenceLevel |-> oxa_prediction.confidence,
                       highRiskMutations |-> detected_high_risk,
                       sccmecType |-> sccmec_type,
                       sccmecRisk |-> IF Truthy(sccmec_type)
                                      THEN [present |-> TRUE, val |-> scc.risk]
                                      ELSE NoNumber,
                       sccmecAnalysis |-> IF Truthy(sccmec_type) THEN scc.note ELSE "",
                       contributingFeatures |->
                           OxaContributions("mecA", mec_a_mutations,
                               OXA_HIGH_RISK_MECA, Milli(600), Milli(400))
                           \o OxaContributions("PBP2a", pbp2a_mutations,
                               OXA_HIGH_RISK_PBP2A, Milli(550), Milli(350))
                           \o (IF Truthy(sccmec_type)
                               THEN <<[name |-> [gene |-> "SCCmec",
                                                 mutation |-> "{sccmec_type}"],
                                       weight |-> scc.risk]>>
                               ELSE <<>>),
                       mlModelResults |-> ml_result,
                       steps |-> steps]]

-----------------------------------------------------------------------------
(* api/main.py: the HTTP handlers *)

\* except ValueError -> 400; except Exception -> 500; otherwise the response
HttpStatus(out) ==
    IF out.raised = "" THEN 200
    ELSE IF out.raised = "ValueError" THEN 400
    ELSE 500

\* db.add_prediction runs only after the prediction function has returned.
DbAfter(rows, out) == IF out.raised = "" THEN rows + 1 ELSE rows

SetGlobals(g) ==
    /\ svm_model' = g.svm_model
    /\ rf_model' = g.rf_model
    /\ ensemble_model' = g.ensemble_model
    /\ svm_inits' = g.svm_inits
    /\ rf_inits' = g.rf_inits
    /\ ens_inits' = g.ens_inits
    /\ kb' = g.kb
    /\ objects' = g.objects
    /\ np_random' = g.np_random

\* create_bayesian_prediction
CreateBayesianPrediction(req) ==
    LET out == PredictResistanceBayesian(req.mec_a_mutations, req.pbp2a_mutations,
                   req.vancomycin_resistance_profile, req.dataset_ok, req.llm)
    IN  /\ call' = req
        /\ result' = [http |-> HttpStatus(out), output |-> out]
        /\ db' = DbAfter(db, out)
        /\ UNCHANGED <<SKLEARN_AVAILABLE, threads, svm_model, rf_model, ensemble_model,
                       svm_inits, rf_inits, ens_inits, pc,
                   history, kb, objects, np_random>>

\* create_ml_prediction
CreateMlPrediction(req) ==
    LET r == PredictResistanceMl(Globals, req.mec_a_mutations, req.pbp2a_mutations,
                 req.model_type, req.sccmec_type, req.additional_genes, req.oracle)
    IN  /\ call' = req
        /\ result' = [http |-> HttpStatus(r.out), output |-> r.out]
        /\ db' = DbAfter(db, r.out)
        /\ SetGlobals(r.g)
        /\ UNCHANGED <<SKLEARN_AVAILABLE, threads, pc,
                   history>>

\* create_oxacillin_prediction
CreateOxacillinPrediction(req) ==
    LET r == PredictOxacillinResistance(Globals, req.mec_a_mutations,
                 req.pbp2a_mutations, req.sccmec_type, req.additional_genes,
                 req.oracle)
    IN  /\ call' = req
        /\ result' = [http |-> HttpStatus(r.out), output |-> r.out]
        /\ db' = DbAfter(db, r.out)
        /\ SetGlobals(r.g)
        /\ UNCHANGED <<SKLEARN_AVAILABLE, threads, pc,
                   history>>

-----------------------------------------------------------------------------
(* predictions.py: the evolutionary path, its validation and its fallback *)

\* re.split on a class of single characters: the pieces between them.
RECURSIVE ReSplit(_, _, _)
ReSplit(s, seps, piece) ==
    IF s = <<>> THEN <<piece>>
    ELSE IF Head(s) \in seps THEN <<piece>> \o ReSplit(Tail(s), seps, <<>>)
    ELSE ReSplit(Tail(s), seps, Append(piece, Head(s)))

\* [s.strip() for s in re.split(..., mutation_patterns) if s.strip()]
StrippedPieces(s, seps) ==
    LET pieces == ReSplit(s, seps, <<>>)
    IN  SelectSeq([i \in 1..Len(pieces) |-> StrStrip(pieces[i])], LAMBDA t : t # <<>>)

\* re.search(r'[A-Za-z0-9_\-]+\(.+\)', t): a name character, "(", at least one
\* character, and a later ")".
PlausibleToken(t) ==
    \E i \in 1..Len(t) :
        /\ t[i] \in {UpperChars[j] : j \in DOMAIN UpperChars}
                   \cup {LowerChars[j] : j \in DOMAIN LowerChars}
        /\ i + 3 <= Len(t) /\ t[i + 1] = "("
        /\ \E k \in (i + 3)..Len(t) : t[k] = ")"

\* The validation of predict_resistance_emergence (predictions.py:365-372);
\* splitting on [\n,;]+ and on [\n,;] leave the same non-blank pieces.
PassesValidation(mutation_patterns) ==
    LET mutation_tokens == StrippedPieces(mutation_patterns, {"\n", ",", ";"})
    IN  /\ mutation_tokens # <<>>
        /\ \E i \in 1..Len(mutation_tokens) : PlausibleToken(mutation_tokens[i])

\* Variant with the step of the first chart, 0.1.
EvolutionaryWeightChart(i) == Max(0, Min(One, Milli(500) + i * Milli(100)))

\* max(0, min(1, 0.5 + i * 0.08))
EvolutionaryWeight(i) == Max(0, Min(One, Milli(500) + i * Milli(80)))

RECURSIVE SumWeights(_)
SumWeights(contrib) ==
    IF contrib = <<>> THEN 0 ELSE Head(contrib).weight + SumWeights(Tail(contrib))

\* _evolutionary_fallback.  avg_weight is compared through the sum of the
\* weights: avg >= x iff sum >= x * len(contrib); without entries avg is 0.
EvolutionaryFallback(mutation_patterns) ==
    LET mutations == StrippedPieces(mutation_patterns, {",", "\n"})
        base_confidence ==
            Min(Milli(950), Max(Milli(550),
                Milli(550) + Min(6, Len(mutations)) * Milli(60)))
        contrib == [k \in 1..Min(6, Len(mutations)) |->
                       [name |-> mutations[k], weight |-> EvolutionaryWeight(k - 1)]]
        n == Len(contrib)
        total == SumWeights(contrib)
        threat_level ==
            IF n = 0 THEN "Very Low"
            ELSE IF total >= Milli(750) * n THEN "High"
            ELSE IF total >= Milli(500) * n THEN "Moderate"
            ELSE IF total >= Milli(250) * n THEN "Low"
            ELSE "Very Low"
    IN  [raised |-> "", confidenceLevel |-> base_confidence,
         contributingFeatures |-> contrib, threatLevel |-> threat_level,
         detected |-> Len(mutations)]

-----------------------------------------------------------------------------
(* Inputs *)

\* Mutation codes: a high-risk mecA code, a high-risk PBP2a code, an unknown one.
Codes == {"G246E", "E447K", "Z999X"}

\* Every pair of lists with at most MaxTotal codes in all is an input.
MaxTotal == 2

\* Longer lists, up to MaxLong codes, are inputs too (one per length).
MaxLong == 7

ListsUpTo(n) == UNION {[1..k -> Codes] : k \in 0..n}

CodeCycle == <<"Z999X", "G246E", "E447K">>

LongList(n) == [i \in 1..n |-> CodeCycle[((i - 1) % 3) + 1]]

\* The list pairs the service is exercised with.
ServicePairs ==
    {<<<<>>, <<>>>>, <<<<"G246E">>, <<>>>>, <<<<>>, <<"E447K">>>>,
     <<<<"Z999X", "G246E">>, <<"E447K">>>>}

ListPairs ==
    {p \in ListsUpTo(MaxTotal) \X ListsUpTo(MaxTotal) : Len(p[1]) + Len(p[2]) <= MaxTotal}
    \cup ServicePairs
    \cup UNION {{<<LongList(n), <<>>>>, <<<<>>, LongList(n)>>, <<LongList(n), LongList(n)>>}
                : n \in (MaxTotal + 1)..MaxLong}

vanA == <<"v", "a", "n", "A">>

VanB == <<"V", "a", "n", "B">>

mecI == <<"m", "e", "c", "I">>

GeneArgs ==
    {None, Some(<<>>), Some(<<vanA>>), Some(<<mecI>>), Some(<<mecI, VanB>>),
     Some(<< <<"b", "l", "a", "Z">>, <<"M", "E", "C", "R", "1">> >>),
     Some(<< <<"b", "l", "a", "Z">>, <<"m", "e", "c", "I", "2">> >>)}

ServiceGeneArgs == {None, Some(<<>>), Some(<<vanA>>)}

SccmecArgs == {None, Some(<<"I", "V">>)}

ModelTypes == {"svm", "random_forest", "ensemble"}

ProfileArgs == {None, Some(<<"V", "A", "N">>), Some(<<"l", "o", "w">>)}

\* The classifiers' answers are drawn from the multiples of 1/ProbaSteps.
ProbaSteps == 4

ProbaGrid == {(k * One) \div ProbaSteps : k \in 0..ProbaSteps}

Proba(oxa, van, cef) == [oxacillin |-> oxa, vancomycin |-> van, ceftaroline |-> cef]

\* predict_proba of one fitted predictor, for the three antibiotics
Oracles ==
    {[svm |-> Proba(a, One - a, a), rf |-> Proba(b, b, One - b)] :
        a \in ProbaGrid, b \in ProbaGrid}

NoOracle == [svm |-> Proba(0, 0, 0), rf |-> Proba(0, 0, 0)]

ServiceOracles ==
    {[svm |-> Proba(Half, Half, Half), rf |-> Proba(Half, Half, Half)],
     [svm |-> Proba(Milli(900), 0, Milli(100)), rf |-> Proba(Milli(800), Milli(10), One)]}

\* What generate_json returns: probabilities at, just below and between the
\* quarter points from -0.25 to MaxLlmQuarter/4 (the client may return numbers
\* outside [0,1]).
MaxLlmQuarter == 5

LlmValues == {k * Milli(250) - d : k \in (-1)..MaxLlmQuarter, d \in {0, Milli(1)}}

LlmReply(oxa, van, cef) == [kind |-> "reply", oxa |-> oxa, van |-> van, cef |-> cef]

LlmFails == {[kind |-> "raise", oxa |-> 0, van |-> 0, cef |-> 0],
             [kind |-> "malformed", oxa |-> 0, van |-> 0, cef |-> 0]}

LlmReplies ==
    {LlmReply(a, b, c) : a \in LlmValues, b \in {0, Milli(1250)},
                         c \in {-One, Milli(750)}}

ServiceLlm == LlmFails \cup {LlmReply(Half, Half, Half), LlmReply(Milli(800), -Milli(100), Milli(1500))}

\* A call: the operation and every argument and environment answer it reads.
Call(op, pair, model_type, sccmec_type, additional_genes, profile, dataset_ok, llm, oracle) ==
    [op |-> op, mec_a_mutations |-> pair[1], pbp2a_mutations |-> pair[2],
     model_type |-> model_type, sccmec_type |-> sccmec_type,
     additional_genes |-> additional_genes,
     vancomycin_resistance_profile |-> profile,
     dataset_ok |-> dataset_ok, llm |-> llm, oracle |-> oracle,
     mutation_patterns |-> <<>>]

NoLlm == [kind |-> "raise", oxa |-> 0, van |-> 0, cef |-> 0]

NoCall == Call("", <<<<>>, <<>>>>, "", None, None, None, TRUE, NoLlm, NoOracle)

NoResult == [raised |-> "not called"]

NoHistory == [n |-> 0, call |-> NoCall, result |-> NoResult]

\* The classifiers answer only where scikit-learn is present.
OraclesOf(sklearn, oracles) == IF sklearn THEN oracles ELSE {NoOracle}

-----------------------------------------------------------------------------
(* The service: requests handled one after the other *)

BayesianRequests ==
    {Call("bayesian", p, "", None, None, None, ok, llm, NoOracle) :
        p \in ServicePairs, ok \in BOOLEAN, llm \in ServiceLlm}

MlRequests(sklearn) ==
    {Call("ml", p, t, None, genes, None, TRUE, NoLlm, o) :
        p \in ServicePairs, t \in ModelTypes, genes \in ServiceGeneArgs,
        o \in OraclesOf(sklearn, ServiceOracles)}

OxacillinRequests(sklearn) ==
    {Call("oxacillin", p, "", scc, genes, None, TRUE, NoLlm, o) :
        p \in ServicePairs, scc \in SccmecArgs, genes \in ServiceGeneArgs,
        o \in OraclesOf(sklearn, ServiceOracles)}

\* The number of stored predictions the model follows the service for.
MaxStored == 2

Init ==
    /\ SKLEARN_AVAILABLE \in BOOLEAN
    /\ svm_model = 0 /\ rf_model = 0 /\ ensemble_model = 0
    /\ svm_inits = 0 /\ rf_inits = 0 /\ ens_inits = 0
    /\ db = 0
    /\ call = NoCall
    /\ result = NoResult
    /\ pc = "serving"
    /\ threads = <<>>
    /\ kb = KnowledgeBase
    /\ objects = NoObjects
    /\ history = NoHistory
    /\ np_random = Unseeded

BayesianRequest ==
    /\ pc = "serving" /\ db < MaxStored
    /\ \E req \in BayesianRequests : CreateBayesianPrediction(req)

MlRequest ==
    /\ pc = "serving" /\ db < MaxStored
    /\ \E req \in MlRequests(SKLEARN_AVAILABLE) : CreateMlPrediction(req)

OxacillinRequest ==
    /\ pc = "serving" /\ db < MaxStored
    /\ \E req \in OxacillinRequests(SKLEARN_AVAILABLE) : CreateOxacillinPrediction(req)

Next == BayesianRequest \/ MlRequest \/ OxacillinRequest

Spec == Init /\ [][Next]_vars

-----------------------------------------------------------------------------
(* Single calls: one function applied once to one input, in a fresh process *)

HeuristicCalls ==
    {Call(op, p, "", None, genes, None, TRUE, NoLlm, NoOracle) :
        op \in {"svm_heuristic", "rf_heuristic"}, p \in ListPairs, genes \in GeneArgs}

\* With scikit-learn present the mutation lists reach the result only through
\* the fitted classifiers, whose answers are the oracle.
ModelCalls(op, sklearn) ==
    IF sklearn
    THEN {Call(op, p, t, None, None, None, TRUE, NoLlm, o) :
             p \in ServicePairs, t \in ModelTypes, o \in Oracles}
    ELSE {Call(op, p, t, None, genes, None, TRUE, NoLlm, NoOracle) :
             p \in ListPairs, t \in ModelTypes, genes \in GeneArgs}

BayesianCalls ==
    {Call("bayesian", p, "", None, None, None, TRUE, llm, NoOracle) :
        p \in ListPairs, llm \in LlmReplies}
    \cup {Call("bayesian", p, "", None, None, profile, TRUE, llm, NoOracle) :
        p \in ListPairs, profile \in ProfileArgs, llm \in LlmFails}
    \cup {Call("bayesian", p, "", None, None, None, FALSE, NoLlm, NoOracle) :
        p \in ServicePairs}
    \cup {Call("bayesian_fallback", p, "", None, None, profile, TRUE, NoLlm, NoOracle) :
        p \in ListPairs, profile \in ProfileArgs}

\* The inputs of extract_features: the list pairs, the pair of the documented
\* example, and SCCmec labels with and without prefix, in either case, unknown,
\* empty and blank.
ExtractPairs == ListPairs \cup {<< <<"G246E", "I112V">>, <<"E447K">> >>}

ExtractSccmecArgs ==
    {None, Some(<<>>), Some(<<" ">>),
     Some(<<"I", "V">>), Some(<<"i", "v">>), Some(<<"I", "V", "a">>),
     Some(<<"t", "y", "p", "e", "-", "I", "V">>),
     Some(<<"t", "y", "p", "e", " ", "I", "V">>),
     Some(<<"T", "y", "p", "e", " ", "I", "V">>),
     Some(<<"X", "I">>)}

ExtractCalls ==
    {Call("extract_features", p, "", scc, genes, None, TRUE, NoLlm, NoOracle) :
        p \in ExtractPairs, scc \in ExtractSccmecArgs, genes \in GeneArgs}

\* The inputs of predict_oxacillin_resistance: lists with the codes that only
\* the extractor's high-risk sets hold, and every label of its risk table, bare,
\* prefixed and in lower case, beside an unknown, an empty and an omitted one.
OxacillinCalls(sklearn) ==
    {Call("oxacillin", p, "", scc, genes, None, TRUE, NoLlm, o) :
        p \in ServicePairs
              \cup {<<<<"N337D">>, <<>>>>, <<<<>>, <<"T123C">>>>,
                    <<<<"G246E", "N337D">>, <<"I517M", "E447K">>>>},
        scc \in {None, Some(<<>>), Some(<<"I">>), Some(<<"I", "I">>),
                 Some(<<"I", "I", "I">>), Some(<<"I", "V">>), Some(<<"I", "V", "a">>),
                 Some(<<"V">>), Some(<<"i", "v">>), Some(<<"X", "I">>),
                 Some(<<"t", "y", "p", "e", "-", "I", "V", "a">>),
                 Some(<<"t", "y", "p", "e", " ", "I", "I">>)},
        genes \in IF sklearn THEN {None} ELSE {None, Some(<<vanA>>)},
        o \in OraclesOf(sklearn, Oracles)}

\* The characters the mutation patterns are written with.
PatternChars == {"m", "(", ")", ",", ";"}

\* Every pattern of at most MaxPattern characters is an input.
MaxPattern == 5

\* Longer patterns, of up to MaxTokens tokens: "m(m)" repeated, with blanks
\* around the separator.
MaxTokens == 8

RECURSIVE JoinTokens(_, _)
JoinTokens(n, sep) ==
    IF n = 1 THEN <<"m", "(", "m", ")">>
    ELSE JoinTokens(n - 1, sep) \o <<" ", sep, " ", "m", "(", "m", ")">>

EvolutionaryCalls ==
    {[Call("evolutionary_fallback", <<<<>>, <<>>>>, "", None, None, None, TRUE,
           NoLlm, NoOracle) EXCEPT !.mutation_patterns = s] :
        s \in UNION {[1..k -> PatternChars] : k \in 0..MaxPattern}
              \cup {JoinTokens(n, sep) : n \in 2..MaxTokens, sep \in {",", ";", "\n"}}}

\* The Bayesian path and the extractor read neither SKLEARN_AVAILABLE nor the
\* models: their calls are enumerated in the process that has scikit-learn.
FnCalls(sklearn) ==
    HeuristicCalls \cup ModelCalls("predict", sklearn) \cup ModelCalls("ml", sklearn)
    \cup OxacillinCalls(sklearn)
    \cup (IF sklearn THEN BayesianCalls \cup ExtractCalls \cup EvolutionaryCalls ELSE {})

InitFn ==
    /\ SKLEARN_AVAILABLE \in BOOLEAN
    /\ svm_model = 0 /\ rf_model = 0 /\ ensemble_model = 0
    /\ svm_inits = 0 /\ rf_inits = 0 /\ ens_inits = 0
    /\ db = 0
    /\ call \in FnCalls(SKLEARN_AVAILABLE)
    /\ result = NoResult
    /\ pc = "ready"
    /\ threads = <<>>
    /\ kb = KnowledgeBase
    /\ objects = NoObjects
    /\ history = NoHistory
    /\ np_random = Unseeded

\* predictor._heuristic_predict(mecA, PBP2a, additional_genes), SVM predictor
CallSvmHeuristic ==
    /\ pc = "ready" /\ call.op = "svm_heuristic"
    /\ SetGlobals(HeuristicEffects(Globals, call.mec_a_mutations, call.pbp2a_mutations,
                                   call.additional_genes))
    /\ result' = SvmHeuristicPredict(call.mec_a_mutations, call.pbp2a_mutations,
                                        call.additional_genes)
    /\ pc' = "done"
    /\ UNCHANGED <<SKLEARN_AVAILABLE, threads, db, call, history>>

\* predictor._heuristic_predict(mecA, PBP2a, additional_genes), RF predictor
CallRfHeuristic ==
    /\ pc = "ready" /\ call.op = "rf_heuristic"
    /\ SetGlobals(HeuristicEffects(Globals, call.mec_a_mutations, call.pbp2a_mutations,
                                   call.additional_genes))
    /\ result' = RfHeuristicPredict(call.mec_a_mutations, call.pbp2a_mutations,
                                       call.additional_genes)
    /\ pc' = "done"
    /\ UNCHANGED <<SKLEARN_AVAILABLE, threads, db, call, history>>

\* get_svm_model() / get_rf_model() / get_ensemble_model(), then .predict(...)
CallModelPredict ==
    /\ pc = "ready" /\ call.op = "predict"
    /\ SetGlobals(PredictEffects(call.model_type,
                      IF call.model_type = "svm" THEN GetSvmModel(Globals)
                      ELSE IF call.model_type = "random_forest" THEN GetRfModel(Globals)
                      ELSE GetEnsembleModel(Globals),
                      call.mec_a_mutations, call.pbp2a_mutations, call.sccmec_type,
                      call.additional_genes))
    /\ result' = ModelPredict(call.model_type, call.mec_a_mutations,
                              call.pbp2a_mutations, call.sccmec_type,
                              call.additional_genes, call.oracle)
    /\ pc' = "done"
    /\ UNCHANGED <<SKLEARN_AVAILABLE, threads, db, call,
                   history>>

\* predict_resistance_ml(...)
CallPredictResistanceMl ==
    /\ pc = "ready" /\ call.op = "ml"
    /\ LET r == PredictResistanceMl(Globals, call.mec_a_mutations,
                    call.pbp2a_mutations, call.model_type, call.sccmec_type,
                    call.additional_genes, call.oracle)
       IN  SetGlobals(r.g) /\ result' = r.out
    /\ pc' = "done"
    /\ UNCHANGED <<SKLEARN_AVAILABLE, threads, db, call,
                   history>>

\* predict_resistance_bayesian(...)
CallPredictResistanceBayesian ==
    /\ pc = "ready" /\ call.op = "bayesian"
    /\ result' = PredictResistanceBayesian(call.mec_a_mutations, call.pbp2a_mutations,
                     call.vancomycin_resistance_profile, call.dataset_ok, call.llm)
    /\ pc' = "done"
    /\ UNCHANGED <<SKLEARN_AVAILABLE, threads, svm_model, rf_model, ensemble_model,
                   svm_inits, rf_inits, ens_inits, db, call,
                   history, kb, objects, np_random>>

\* _bayesian_fallback(...)
CallBayesianFallback ==
    /\ pc = "ready" /\ call.op = "bayesian_fallback"
    /\ result' = BayesianFallback(call.mec_a_mutations, call.pbp2a_mutations,
                     call.vancomycin_resistance_profile, <<>>)
    /\ pc' = "done"
    /\ UNCHANGED <<SKLEARN_AVAILABLE, threads, svm_model, rf_model, ensemble_model,
                   svm_inits, rf_inits, ens_inits, db, call,
                   history, kb, objects, np_random>>

\* extractor.extract_features(mecA, PBP2a, sccmec_type, additional_genes)
CallExtractFeatures ==
    /\ pc = "ready" /\ call.op = "extract_features"
    /\ LET r == ExtractFeatures(kb, call.mec_a_mutations, call.pbp2a_mutations,
                                call.sccmec_type, call.additional_genes)
       IN  /\ result' = [raised |-> r.raised, features |-> r.features,
                         vector |-> r.vector]
           /\ kb' = r.kb
    /\ pc' = "done"
    /\ UNCHANGED <<SKLEARN_AVAILABLE, threads, svm_model, rf_model, ensemble_model,
                   svm_inits, rf_inits, ens_inits, db, call, history, objects, np_random>>

\* predict_oxacillin_resistance(...)
CallPredictOxacillinResistance ==
    /\ pc = "ready" /\ call.op = "oxacillin"
    /\ LET r == PredictOxacillinResistance(Globals, call.mec_a_mutations,
                    call.pbp2a_mutations, call.sccmec_type,
                    call.additional_genes, call.oracle)
       IN  SetGlobals(r.g) /\ result' = r.out
    /\ pc' = "done"
    /\ UNCHANGED <<SKLEARN_AVAILABLE, threads, db, call,
                   history>>

\* _evolutionary_fallback(mutation_patterns)
CallEvolutionaryFallback ==
    /\ pc = "ready" /\ call.op = "evolutionary_fallback"
    /\ result' = EvolutionaryFallback(call.mutation_patterns)
    /\ pc' = "done"
    /\ UNCHANGED <<SKLEARN_AVAILABLE, threads, svm_model, rf_model, ensemble_model,
                   svm_inits, rf_inits, ens_inits, db, call,
                   history, kb, objects, np_random>>

NextFn ==
    \/ CallExtractFeatures
    \/ CallEvolutionaryFallback
    \/ CallPredictOxacillinResistance
    \/ CallSvmHeuristic
    \/ CallRfHeuristic
    \/ CallModelPredict
    \/ CallPredictResistanceMl
    \/ CallPredictResistanceBayesian
    \/ CallBayesianFallback

SpecFn == InitFn /\ [][NextFn]_vars

-----------------------------------------------------------------------------
(* Sequences of calls: one process calls the extractor, the heuristics and *)
(* the predictors one after the other, on one set of tables and globals.   *)

\* The number of calls the model follows a process for.
MaxCalls == 3

SeqGeneArgs == {None, Some(<<>>), Some(<<vanA>>)}

SeqSccmecArgs == {None, Some(<<"I", "V">>), Some(<<"X", "I">>)}

\* The calls of a sequence; the classifiers answer where scikit-learn is present.
SeqCalls(sklearn) ==
    {Call("extract_features", p, "", scc, genes, None, TRUE, NoLlm, NoOracle) :
        p \in ServicePairs, scc \in SeqSccmecArgs, genes \in {None, Some(<<vanA>>)}}
    \cup {Call(op, p, "", None, genes, None, TRUE, NoLlm, NoOracle) :
        op \in {"svm_heuristic", "rf_heuristic"}, p \in ServicePairs,
        genes \in SeqGeneArgs}
    \cup {Call("predict", <<<<"Z999X", "G246E">>, <<"E447K">>>>, t, None, Some(<<vanA>>),
               None, TRUE, NoLlm, o) :
        t \in ModelTypes, o \in OraclesOf(sklearn, ServiceOracles)}

InitSeq ==
    /\ SKLEARN_AVAILABLE \in BOOLEAN
    /\ svm_model = 0 /\ rf_model = 0 /\ ensemble_model = 0
    /\ svm_inits = 0 /\ rf_inits = 0 /\ ens_inits = 0
    /\ db = 0
    /\ call = NoCall
    /\ result = NoResult
    /\ pc = "idle"
    /\ threads = <<>>
    /\ kb = KnowledgeBase
    /\ objects = NoObjects
    /\ history = NoHistory
    /\ np_random = Unseeded

\* The caller builds the arguments of its next call.
SeqCall ==
    /\ pc = "idle" /\ history.n < MaxCalls
    /\ call' \in SeqCalls(SKLEARN_AVAILABLE)
    /\ result' = NoResult
    /\ pc' = "ready"
    /\ UNCHANGED <<SKLEARN_AVAILABLE, threads, svm_model, rf_model, ensemble_model,
                   svm_inits, rf_inits, ens_inits, db, history, kb, objects, np_random>>

\* The call is over; the caller keeps what its first call was and returned.
SeqReturn ==
    /\ pc = "done"
    /\ history' = IF history.n = 0 THEN [n |-> 1, call |-> call, result |-> result]
                  ELSE [history EXCEPT !.n = @ + 1]
    /\ pc' = "idle"
    /\ UNCHANGED <<SKLEARN_AVAILABLE, threads, svm_model, rf_model, ensemble_model,
                   svm_inits, rf_inits, ens_inits, db, call, result, kb, objects, np_random>>

NextSeq ==
    \/ SeqCall
    \/ CallExtractFeatures
    \/ CallSvmHeuristic
    \/ CallRfHeuristic
    \/ CallModelPredict
    \/ SeqReturn

SpecSeq == InitSeq /\ [][NextSeq]_vars

-----------------------------------------------------------------------------
(* Concurrent callers of get_svm_model / get_rf_model / get_ensemble_model. *)
(* The accessors take no lock, so a thread switch may fall between the      *)
(* test of the global, the constructor call, the store to the global and    *)
(* the final read of the global for the return value.                       *)

\* The number of threads calling the accessors.
NumThreads == 2

Threads == 1..NumThreads

Accessors == {"get_svm_model", "get_rf_model", "get_ensemble_model"}

\* The global an accessor serves, read from the record of globals.
GlobalOf(accessor, g) ==
    CASE accessor = "get_svm_model" -> g.svm_model
      [] accessor = "get_rf_model" -> g.rf_model
      [] OTHER -> g.ensemble_model

\* The constructor an accessor calls: the globals after it, and the new instance.
Construct(accessor, g) ==
    CASE accessor = "get_svm_model" ->
            LET h == SvmInit(g) IN [g |-> h, instance |-> h.svm_inits]
      [] accessor = "get_rf_model" ->
            LET h == RfInit(g) IN [g |-> h, instance |-> h.rf_inits]
      [] OTHER ->
            LET h == EnsembleInit(g) IN [g |-> h, instance |-> h.ens_inits]

\* _xxx_model = <the new instance>
Store(accessor, g, instance) ==
    CASE accessor = "get_svm_model" ->
            [g EXCEPT !.svm_model = instance, !.objects.svm_model = SvmObject]
      [] accessor = "get_rf_model" ->
            [g EXCEPT !.rf_model = instance, !.objects.rf_model = RfObject]
      [] OTHER ->
            [g EXCEPT !.ensemble_model = instance,
                      !.objects.ensemble_model = [svm |-> SvmObject, rf |-> RfObject]]

InitConc ==
    /\ SKLEARN_AVAILABLE \in BOOLEAN
    /\ svm_model = 0 /\ rf_model = 0 /\ ensemble_model = 0
    /\ svm_inits = 0 /\ rf_inits = 0 /\ ens_inits = 0
    /\ db = 0
    /\ call = NoCall
    /\ result = NoResult
    /\ pc = "threads"
    /\ threads \in [Threads -> {[accessor |-> a, at |-> "test", constructed |-> FALSE,
                                 instance |-> 0, returned |-> 0] : a \in Accessors}]
    /\ kb = KnowledgeBase
    /\ objects = NoObjects
    /\ history = NoHistory
    /\ np_random = Unseeded

\* if _xxx_model is None:
TestGlobal(t) ==
    /\ pc = "threads" /\ threads[t].at = "test"
    /\ threads' = [threads EXCEPT ![t].at =
          IF GlobalOf(threads[t].accessor, Globals) = 0 THEN "construct" ELSE "return"]
    /\ UNCHANGED <<SKLEARN_AVAILABLE, svm_model, rf_model, ensemble_model,
                   svm_inits, rf_inits, ens_inits, db, call, result, pc,
                   history, kb, objects, np_random>>

\* the right-hand side of the assignment: the constructor runs
RunConstructor(t) ==
    /\ pc = "threads" /\ threads[t].at = "construct"
    /\ LET c == Construct(threads[t].accessor, Globals)
       IN  /\ SetGlobals(c.g)
           /\ threads' = [threads EXCEPT ![t].at = "store", ![t].constructed = TRUE,
                                         ![t].instance = c.instance]
    /\ UNCHANGED <<SKLEARN_AVAILABLE, db, call, result, pc,
                   history>>

\* the store to the global
StoreGlobal(t) ==
    /\ pc = "threads" /\ threads[t].at = "store"
    /\ SetGlobals(Store(threads[t].accessor, Globals, threads[t].instance))
    /\ threads' = [threads EXCEPT ![t].at = "return"]
    /\ UNCHANGED <<SKLEARN_AVAILABLE, db, call, result, pc,
                   history>>

\* return _xxx_model
ReturnGlobal(t) ==
    /\ pc = "threads" /\ threads[t].at = "return"
    /\ threads' = [threads EXCEPT ![t].at = "done",
                                  ![t].returned = GlobalOf(threads[t].accessor, Globals)]
    /\ UNCHANGED <<SKLEARN_AVAILABLE, svm_model, rf_model, ensemble_model,
                   svm_inits, rf_inits, ens_inits, db, call, result, pc,
                   history, kb, objects, np_random>>

NextConc ==
    \E t \in Threads :
        TestGlobal(t) \/ RunConstructor(t) \/ StoreGlobal(t) \/ ReturnGlobal(t)

SpecConc == InitConc /\ [][NextConc]_vars

-----------------------------------------------------------------------------
(* Concurrent constructions: each thread runs SVMResistancePredictor(), as  *)
(* get_svm_model and get_rf_model do on first use.  _generate_training_data *)
(* seeds and draws from numpy's global generator; a thread switch may fall  *)
(* between any two calls of np.random.                                      *)

InitCohort ==
    /\ SKLEARN_AVAILABLE \in BOOLEAN
    /\ svm_model = 0 /\ rf_model = 0 /\ ensemble_model = 0
    /\ svm_inits = 0 /\ rf_inits = 0 /\ ens_inits = 0
    /\ db = 0
    /\ call = NoCall
    /\ result = NoResult
    /\ pc = "cohort"
    /\ threads = [t \in Threads |-> [at |-> "seed", cohort |-> <<>>]]
    /\ kb = KnowledgeBase
    /\ objects = NoObjects
    /\ history = NoHistory
    /\ np_random = Unseeded

\* np.random.seed(42)
SeedGenerator(t) ==
    /\ pc = "cohort" /\ threads[t].at = "seed"
    /\ np_random' = Seeded
    /\ threads' = [threads EXCEPT ![t].at = "draw"]
    /\ UNCHANGED <<SKLEARN_AVAILABLE, svm_model, rf_model, ensemble_model,
                   svm_inits, rf_inits, ens_inits, db, call, result, pc,
                   history, kb, objects>>

\* the next np.random call of the loop; its value goes into the cohort
DrawSample(t) ==
    /\ pc = "cohort" /\ threads[t].at = "draw"
    /\ Len(threads[t].cohort) < CohortDraws
    /\ LET d == Draw(np_random)
       IN  /\ np_random' = d.rng
           /\ threads' = [threads EXCEPT ![t].cohort = Append(@, d.value)]
    /\ UNCHANGED <<SKLEARN_AVAILABLE, svm_model, rf_model, ensemble_model,
                   svm_inits, rf_inits, ens_inits, db, call, result, pc,
                   history, kb, objects>>

\* return np.array(X), ...; self.training_data = ...
ReturnCohort(t) ==
    /\ pc = "cohort" /\ threads[t].at = "draw"
    /\ Len(threads[t].cohort) = CohortDraws
    /\ threads' = [threads EXCEPT ![t].at = "done"]
    /\ svm_inits' = svm_inits + 1
    /\ UNCHANGED <<SKLEARN_AVAILABLE, svm_model, rf_model, ensemble_model,
                   rf_inits, ens_inits, db, call, result, pc,
                   history, kb, objects, np_random>>

NextCohort ==
    \E t \in Threads : SeedGenerator(t) \/ DrawSample(t) \/ ReturnCohort(t)

SpecCohort == InitCohort /\ [][NextCohort]_vars

-----------------------------------------------------------------------------
(* Properties *)

Done(ops) == pc = "done" /\ call.op \in ops

HeuristicOps == {"svm_heuristic", "rf_heuristic"}

\* C1: the heuristic fallback never fails: for every mecA list, every PBP2a
\* list and every value of additional_genes (omitted, empty, non-empty), both
\* _heuristic_predict methods return a result record and raise no error.
C1_HeuristicNeverFails ==
    Done(HeuristicOps) => result.raised = ""

\* Some accessory gene name contains "van", ignoring case (no gene: none does).
ClaimedHasVan(additional_genes) ==
    additional_genes.present
    /\ \E i \in 1..Len(additional_genes.val) :
           StrContains(StrLower(additional_genes.val[i]), <<"v", "a", "n">>)

ClaimedFlag(mutations, high_risk) ==
    IF \E i \in 1..Len(mutations) : mutations[i] \in high_risk THEN 1 ELSE 0

\* C2: for every input the SVM-style heuristic fallback returns
\*   oxacillin   = min(0.95, 0.3 + 0.12*mecA_count + 0.15*has_high_risk_mecA)
\*   vancomycin  = min(0.3, 0.05 + 0.4*has_van + 0.02*(mecA_count + PBP2a_count))
\*   ceftaroline = min(0.85, 0.2 + 0.1*PBP2a_count + 0.12*has_high_risk_PBP2a
\*                           + 0.05*mecA_count)
\* and mecA = ["G246E"], PBP2a = [] with the additional genes omitted gives
\* oxacillin probability 0.57.
C2_SvmHeuristicFormulas ==
    Done({"svm_heuristic"}) =>
        LET m == Len(call.mec_a_mutations)
            p == Len(call.pbp2a_mutations)
            hm == ClaimedFlag(call.mec_a_mutations, HIGH_RISK_MECA)
            hp == ClaimedFlag(call.pbp2a_mutations, HIGH_RISK_PBP2A)
            v == IF ClaimedHasVan(call.additional_genes) THEN 1 ELSE 0
        IN  /\ result.raised = ""
            /\ result.predictions["oxacillin"].probability
                   = Min(95000, 30000 + 12000 * m + 15000 * hm)
            /\ result.predictions["vancomycin"].probability
                   = Min(30000, 5000 + 40000 * v + 2000 * (m + p))
            /\ result.predictions["ceftaroline"].probability
                   = Min(85000, 20000 + 10000 * p + 12000 * hp + 5000 * m)
            /\ (call.mec_a_mutations = <<"G246E">> /\ call.pbp2a_mutations = <<>>
                /\ ~call.additional_genes.present)
                   => result.predictions["oxacillin"].probability = 57000

\* C3: for each antibiotic EnsembleResistancePredictor.predict returns
\* probability = 0.45*svm_prob + 0.55*rf_prob, prediction = 1 iff the
\* probability is strictly greater than 0.5, confidence = max(probability,
\* 1 - probability), and the reported weights are always svm 0.45 and
\* random_forest 0.55, whatever the call's arguments.
C3_EnsembleCombination ==
    (Done({"predict"}) /\ call.model_type = "ensemble" /\ result.raised = "") =>
        /\ result.weights = [svm |-> 45, random_forest |-> 55]
        /\ \A a \in Antibiotics :
            LET e == result.predictions[a]
                svm_prob == result.individual_models.svm.predictions[a].probability
                rf_prob == result.individual_models.random_forest.predictions[a].probability
            IN  /\ 100 * e.probability = 45 * svm_prob + 55 * rf_prob
                /\ e.svm_probability = svm_prob /\ e.rf_probability = rf_prob
                /\ e.prediction \in {0, 1}
                /\ e.prediction = 1 <=> e.probability > 50000
                /\ e.confidence >= e.probability
                /\ e.confidence >= 100000 - e.probability
                /\ e.confidence \in {e.probability, 100000 - e.probability}

\* C3 witness: the ensemble has answered with a probability of exactly 0.5,
\* which it calls 0.
C3_Witness ==
    /\ Done({"predict"}) /\ call.model_type = "ensemble" /\ result.raised = ""
    /\ SKLEARN_AVAILABLE
    /\ result.predictions["oxacillin"].probability = 50000
    /\ result.predictions["oxacillin"].prediction = 0
    /\ result.predictions["oxacillin"].confidence = 50000

InUnit(x) == 0 <= x /\ x <= 100000

InUpperHalf(x) == 50000 <= x /\ x <= 100000

\* C4: in every result of the SVM path, the Random Forest path, the ensemble
\* path and both heuristic fallbacks, each per-antibiotic probability lies in
\* [0,1] and each per-antibiotic confidence lies in [0.5,1].
C4_ProbabilitiesInRange ==
    (Done(HeuristicOps \cup {"predict"}) /\ result.raised = "") =>
        \A a \in Antibiotics :
            /\ InUnit(result.predictions[a].probability)
            /\ InUpperHalf(result.predictions[a].confidence)
            /\ (call.op = "predict" /\ call.model_type = "ensemble") =>
                \A m \in {"svm", "random_forest"} :
                    /\ InUnit(result.individual_models[m].predictions[a].probability)
                    /\ InUpperHalf(result.individual_models[m].predictions[a].confidence)

\* C4 witness: the SVM heuristic has returned two probabilities at their caps
\* for a long profile that carries no van gene.
C4_Witness ==
    /\ Done({"svm_heuristic"}) /\ result.raised = ""
    /\ result.predictions["oxacillin"].probability = 95000
    /\ result.predictions["vancomycin"].probability = 30000
    /\ ~ClaimedHasVan(call.additional_genes)

MaxProbOf(r) ==
    Max3(r.oxacillinResistanceProbability, r.vancomycinResistanceProbability,
         r.ceftarolineResistanceProbability)

ThreatRank(level) ==
    CASE level = "Very Low" -> 0
      [] level = "Low" -> 1
      [] level = "Moderate" -> 2
      [] level = "High" -> 3
      [] OTHER -> -1

ThreatOps == {"bayesian", "bayesian_fallback", "ml"}

\* C5: on the Bayesian path, the Bayesian fallback and the ML path the threat
\* level depends only on m = max(oxacillin, vancomycin, ceftaroline): High if
\* m >= 0.75, Moderate if 0.5 <= m < 0.75, Low if 0.25 <= m < 0.5, Very Low if
\* m < 0.25 (each boundary in the higher bucket), and so the level never
\* decreases when m increases.
C5_ThreatLevelBuckets ==
    (Done(ThreatOps) /\ result.raised = "") =>
        LET m == MaxProbOf(result)
        IN  /\ m >= 75000 => result.threatLevel = "High"
            /\ (50000 <= m /\ m < 75000) => result.threatLevel = "Moderate"
            /\ (25000 <= m /\ m < 50000) => result.threatLevel = "Low"
            /\ m < 25000 => result.threatLevel = "Very Low"
            /\ \A x \in LlmValues :
                /\ x <= m => ThreatRank(ThreatLevel(x)) <= ThreatRank(result.threatLevel)
                /\ x >= m => ThreatRank(ThreatLevel(x)) >= ThreatRank(result.threatLevel)

\* C5 witness: the language model's largest probability is exactly 0.25 and
\* the Bayesian path has answered Low.
C5_Witness ==
    /\ Done({"bayesian"}) /\ result.raised = "" /\ ~result.fallback
    /\ MaxProbOf(result) = 25000
    /\ result.threatLevel = "Low"

BayesianOps == {"bayesian", "bayesian_fallback"}

ClaimedClamp(lo, hi, x) == IF x < lo THEN lo ELSE IF x > hi THEN hi ELSE x

\* C6: the overall confidence of the Bayesian path and of the Bayesian
\* fallback is 0.6 + 0.25*mean(oxa, van, cef) + 0.02*min(6, mecA_count +
\* PBP2a_count) clamped into [0.55, 0.95], for every triple of probabilities
\* (also outside [0,1]) and every pair of counts; three mecA mutations with
\* probabilities averaging 0.5 give 0.785.  (Confidence in twelfths.)
C6_CalibratedConfidence ==
    (Done(BayesianOps) /\ result.raised = "") =>
        LET sum == result.oxacillinResistanceProbability
                   + result.vancomycinResistanceProbability
                   + result.ceftarolineResistanceProbability
            n == Len(call.mec_a_mutations) + Len(call.pbp2a_mutations)
            capped == IF n > 6 THEN 6 ELSE n
        IN  /\ result.confidenceLevel
                   = ClaimedClamp(12 * 55000, 12 * 95000,
                                  12 * 60000 + sum + 12 * 2000 * capped)
            /\ 12 * 55000 <= result.confidenceLevel
            /\ result.confidenceLevel <= 12 * 95000
            /\ (Len(call.mec_a_mutations) = 3 /\ call.pbp2a_mutations = <<>>
                /\ sum = 3 * 50000)
                   => result.confidenceLevel = 12 * 78500

\* C6 witness: three mecA mutations and language-model probabilities averaging
\* 0.5, answered with confidence 0.785.
C6_Witness ==
    /\ Done({"bayesian"}) /\ result.raised = "" /\ ~result.fallback
    /\ Len(call.mec_a_mutations) = 3 /\ call.pbp2a_mutations = <<>>
    /\ MaxProbOf(result) = 75000
    /\ result.oxacillinResistanceProbability + result.vancomycinResistanceProbability
           + result.ceftarolineResistanceProbability = 3 * 50000
    /\ result.confidenceLevel = 12 * 78500

\* C6 witness, clamping: a reply with a probability above 1 pushed the raw
\* confidence above 0.95, and one with negative probabilities pushed it below
\* 0.55.
C6_WitnessClampHigh ==
    /\ Done({"bayesian"}) /\ result.raised = "" /\ ~result.fallback
    /\ MaxProbOf(result) > 100000
    /\ result.confidenceLevel = 12 * 95000

C6_WitnessClampLow ==
    /\ Done({"bayesian"}) /\ result.raised = "" /\ ~result.fallback
    /\ result.oxacillinResistanceProbability < 0
    /\ result.confidenceLevel = 12 * 55000

ClaimedEntries(gene, mutations, base) ==
    [k \in 1..(IF Len(mutations) > 6 THEN 6 ELSE Len(mutations)) |->
        [name |-> [gene |-> gene, mutation |-> mutations[k]],
         weight |-> IF base + 6000 * (k - 1) > 100000 THEN 100000
                    ELSE base + 6000 * (k - 1)]]

\* C7: the contributing features of the Bayesian path and of the Bayesian
\* fallback are one entry per mecA mutation among the first 6, in input order,
\* with weight min(1, 0.45 + 0.06*i), i from 0, followed by one entry per PBP2a
\* mutation among the first 6, in input order, with weight
\* min(1, 0.40 + 0.06*i); nothing is sorted or deduplicated and no PBP2a entry
\* precedes a mecA entry.
C7_ContributingFeatures ==
    (Done(BayesianOps) /\ result.raised = "") =>
        LET f == result.contributingFeatures
        IN  /\ f = ClaimedEntries("mecA", call.mec_a_mutations, 45000)
                   \o ClaimedEntries("PBP2a", call.pbp2a_mutations, 40000)
            /\ \A i \in 1..Len(f), j \in 1..Len(f) :
                   (f[i].name.gene = "PBP2a" /\ f[j].name.gene = "mecA") => j < i

\* C7 witness: both lists are longer than 6 and hold repeated, unsorted codes;
\* 6 mecA entries are followed by 6 PBP2a entries.
C7_Witness ==
    /\ Done(BayesianOps) /\ result.raised = ""
    /\ Len(call.mec_a_mutations) > 6 /\ Len(call.pbp2a_mutations) > 6
    /\ Len(result.contributingFeatures) = 12
    /\ result.contributingFeatures[1].name = [gene |-> "mecA", mutation |-> "Z999X"]
    /\ result.contributingFeatures[4].name = [gene |-> "mecA", mutation |-> "Z999X"]
    /\ result.contributingFeatures[6].weight = 75000
    /\ result.contributingFeatures[7].name.gene = "PBP2a"
    /\ result.contributingFeatures[12].weight = 70000

EmptyRequest(req) ==
    /\ req.op \in {"bayesian", "ml", "oxacillin"}
    /\ req.mec_a_mutations = <<>> /\ req.pbp2a_mutations = <<>>

\* C8: a request whose mecA list and PBP2a list are both empty is rejected
\* with an error by predict_resistance_bayesian, predict_resistance_ml and
\* predict_oxacillin_resistance before any feature extraction or model access:
\* the rejection creates no model singleton and the API stores no prediction.
C8_EmptyRequestRejected ==
    [][EmptyRequest(call') =>
          /\ result'.http = 400
          /\ result'.output.raised = "ValueError"
          /\ result'.output.steps = <<"validate">>
          /\ <<svm_model, rf_model, ensemble_model>>'
                 = <<svm_model, rf_model, ensemble_model>>
          /\ <<svm_inits, rf_inits, ens_inits>>' = <<svm_inits, rf_inits, ens_inits>>
          /\ db' = db]_vars

\* C8 witness: an empty ML request was rejected in a process that has stored a
\* prediction before and still has no model singleton.
C8_Witness ==
    /\ pc = "serving" /\ EmptyRequest(call) /\ call.op = "ml"
    /\ result.http = 400 /\ result.output.steps = <<"validate">>
    /\ svm_model = 0 /\ rf_model = 0 /\ ensemble_model = 0
    /\ db = 1

\* The model names that carry the "(heuristic fallback)" marker.
HeuristicMarked == {"SVM (heuristic fallback)", "Random Forest (heuristic fallback)"}

\* C9: when scikit-learn is unavailable, an ML prediction request with any
\* modelType in {svm, random_forest, ensemble} succeeds and the top-level
\* model field of the returned record carries the "(heuristic fallback)"
\* marker.  (Stated for the requests that supply accessory genes.)
C9_FallbackIsReported ==
    (pc = "serving" /\ ~SKLEARN_AVAILABLE /\ call.op = "ml" /\ ~EmptyRequest(call)
     /\ Truthy(call.additional_genes)) =>
        /\ result.http = 200
        /\ result.output.model \in HeuristicMarked

\* C10: when threads call an accessor concurrently while its global is still
\* None, the constructor runs at most once and every caller receives the same
\* instance.
C10_SingleConstruction ==
    pc = "threads" =>
        \A t \in Threads, u \in Threads :
            (t # u /\ threads[t].accessor = threads[u].accessor) =>
                /\ ~(threads[t].constructed /\ threads[u].constructed)
                /\ (threads[t].at = "done" /\ threads[u].at = "done")
                       => threads[t].returned = threads[u].returned

\* Every constructor run fits its classifiers when scikit-learn is present
\* (ml_models.py:174-183 and 349-353) and fits nothing otherwise.
SvmFits == IF SKLEARN_AVAILABLE THEN svm_inits ELSE 0

RfFits == IF SKLEARN_AVAILABLE THEN rf_inits ELSE 0

\* C11: over any single-threaded sequence of prediction requests mixing
\* modelType svm, random_forest and ensemble and oxacillin-specialist requests,
\* the SVM classifier is fitted on the synthetic cohort at most once in the
\* process lifetime and the Random Forest classifier at most once.
C11_FittedAtMostOnce ==
    pc = "serving" => (SvmFits <= 1 /\ RfFits <= 1)

ExtractDone == Done({"extract_features"}) /\ result.raised = ""

\* The positions of the flag fields, of the SCCmec risk field and of the
\* strain risk field in the vector (get_feature_names, counted from 1).
FlagPositions == {4, 5, 8, 10, 11}

\* C12: for every input to extract_features the result has exactly 12 fields,
\* every field is >= 0, the five flag fields (has-high-risk-mecA,
\* has-high-risk-PBP2a, has-SCCmec, has-van-gene, has-regulatory-mutation) are
\* each 0 or 1, and the SCCmec risk field and the strain risk field lie in [0,1].
C12_FeatureVectorRanges ==
    Done({"extract_features"}) =>
        /\ result.raised = ""
        /\ Len(result.vector) = 12
        /\ \A i \in 1..Len(result.vector) : result.vector[i] >= 0
        /\ \A i \in FlagPositions : result.vector[i] \in {0, 100000}
        /\ 0 <= result.vector[9] /\ result.vector[9] <= 100000
        /\ 0 <= result.vector[12] /\ result.vector[12] <= 100000

\* C12 witness: a vector with all five flags set, a cassette risk strictly
\* between 0 and 1 and a frequency sum above it.
C12_Witness ==
    /\ ExtractDone
    /\ \A i \in FlagPositions : result.vector[i] = 100000
    /\ result.vector[9] = 70000 /\ result.vector[12] = 70000
    /\ result.vector[6] > 0 /\ result.vector[7] > 0

ClaimedAny(mutations, high_risk) == \E i \in 1..Len(mutations) : mutations[i] \in high_risk

\* C13: in the extracted vector the mecA count and the PBP2a count are the
\* lengths of the input lists (duplicates counted), total mutations is their
\* sum, and each high-risk flag is 1 iff some element of that gene's own list
\* is in that gene's high-risk set (a PBP2a high-risk code in the mecA list
\* does not set the mecA flag); mecA = ["G246E","I112V"], PBP2a = ["E447K"]
\* gives both flags 1 and total 3.
C13_CountsAndOwnFlags ==
    ExtractDone =>
        LET v == result.vector
            mec == call.mec_a_mutations
            pbp == call.pbp2a_mutations
        IN  /\ v[1] = 100000 * Len(mec)
            /\ v[2] = 100000 * Len(pbp)
            /\ v[3] = 100000 * (Len(mec) + Len(pbp))
            /\ v[4] = (IF ClaimedAny(mec, KnowledgeBase.HIGH_RISK_MECA) THEN 100000 ELSE 0)
            /\ v[5] = (IF ClaimedAny(pbp, KnowledgeBase.HIGH_RISK_PBP2A) THEN 100000 ELSE 0)
            /\ (mec = <<"G246E", "I112V">> /\ pbp = <<"E447K">>)
                   => (v[4] = 100000 /\ v[5] = 100000 /\ v[3] = 300000)

\* C13 witness: a PBP2a high-risk code in the mecA list and a mecA high-risk
\* code in the PBP2a list: both are counted and no flag is set.
C13_Witness ==
    /\ ExtractDone
    /\ call.mec_a_mutations = <<"E447K">> /\ call.pbp2a_mutations = <<"G246E">>
    /\ result.vector[3] = 200000
    /\ result.vector[4] = 0 /\ result.vector[5] = 0

\* C13 witness for the documented example.
C13_WitnessExample ==
    /\ ExtractDone
    /\ call.mec_a_mutations = <<"G246E", "I112V">> /\ call.pbp2a_mutations = <<"E447K">>
    /\ result.vector[3] = 300000

\* An SCCmec type string was supplied: the argument is a non-empty string.
SccmecSupplied(req) == req.sccmec_type.present /\ Len(req.sccmec_type.val) > 0

\* C14: the has-SCCmec flag is 1 iff an SCCmec type string was supplied; when
\* none is supplied the SCCmec risk field and the strain risk field are both
\* exactly 0, and when one is supplied the strain risk field equals the SCCmec
\* risk field.
C14_SccmecFlagAndFields ==
    ExtractDone =>
        LET v == result.vector
        IN  /\ v[8] \in {0, 100000}
            /\ v[8] = 100000 <=> SccmecSupplied(call)
            /\ ~SccmecSupplied(call) => (v[9] = 0 /\ v[12] = 0)
            /\ SccmecSupplied(call) => v[12] = v[9]

\* C14 witness: a supplied label sets the flag and both risk fields carry its
\* risk score.
C14_Witness ==
    /\ ExtractDone
    /\ call.sccmec_type = Some(<<"I", "V", "a">>)
    /\ result.vector[8] = 100000
    /\ result.vector[9] = 72000 /\ result.vector[12] = 72000

\* C14 witness: the argument is omitted, and it is the empty string.
C14_WitnessAbsent ==
    /\ ExtractDone
    /\ call.sccmec_type = Some(<<>>)
    /\ result.vector[8] = 0 /\ result.vector[9] = 0 /\ result.vector[12] = 0

\* The sum, over the list with its repeats, of the table value of each known
\* code and of 0.01 for each other code.
RECURSIVE ClaimedFrequencySum(_, _)
ClaimedFrequencySum(known, mutations) ==
    IF mutations = <<>> THEN 0
    ELSE (IF Head(mutations) \in DOMAIN known THEN known[Head(mutations)] ELSE 1000)
         + ClaimedFrequencySum(known, Tail(mutations))

\* C15: an unrecognised mutation code or SCCmec label never causes an error in
\* feature extraction: each code absent from its gene's frequency map
\* contributes exactly 0.01 to that gene's frequency sum (known codes their
\* table value, summed over the list including repeats), and a supplied
\* SCCmec label absent from the risk table yields risk score 0.5.
C15_DefaultsForUnknown ==
    Done({"extract_features"}) =>
        /\ result.raised = ""
        /\ result.vector[6] = ClaimedFrequencySum(
               KnowledgeBase.MUTATION_FREQUENCIES.mecA, call.mec_a_mutations)
        /\ result.vector[7] = ClaimedFrequencySum(
               KnowledgeBase.MUTATION_FREQUENCIES.PBP2a, call.pbp2a_mutations)
        /\ (SccmecSupplied(call)
            /\ SccmecClean(call.sccmec_type.val) \notin DOMAIN KnowledgeBase.SCCMEC_RISK)
               => result.vector[9] = 50000

\* C15 witness: an unknown code, a code of the other gene's table and an
\* unknown cassette label.
C15_Witness ==
    /\ ExtractDone
    /\ call.mec_a_mutations = <<"Z999X", "E447K">>
    /\ call.sccmec_type = Some(<<"X", "I">>)
    /\ result.vector[6] = 2000
    /\ result.vector[9] = 50000

\* The label without a "type" / "type-" prefix and blanks, in lower case.
ClaimedLabelKey(label) == StrLower(SccmecClean(StrLower(label)))

\* C16: the SCCmec risk lookup of feature extraction is case-insensitive and
\* prefix-insensitive: a label of the risk table, the label with a "type" or
\* "type-" prefix, and every variant differing only in letter case ("IV",
\* "type-IV", "iv", "Type IV") map to the same risk score.
C16_CaseInsensitiveLookup ==
    (ExtractDone /\ SccmecSupplied(call)) =>
        \A key \in DOMAIN KnowledgeBase.SCCMEC_RISK :
            ClaimedLabelKey(call.sccmec_type.val) = StrLower(key)
                => result.vector[9] = KnowledgeBase.SCCMEC_RISK[key]

\* C17: extract_features is a pure function: a call returns the vector that an
\* earlier call with the same lists in the same order, the same SCCmec type
\* and the same accessory genes returned, whatever calls happened in between,
\* and it modifies neither its arguments nor the high-risk sets, the frequency
\* maps or the SCCmec risk table.
C17_ExtractFeaturesPure ==
    [][(pc = "ready" /\ call.op = "extract_features") =>
          /\ call' = call
          /\ kb' = kb
          /\ (history.n >= 1 /\ history.call = call)
                 => result'.vector = history.result.vector]_vars

\* C17 witness: a call with an unknown code has returned, after an equal first
\* call and a prediction in between that constructed a model.
C17_Witness ==
    /\ pc = "done" /\ call.op = "extract_features"
    /\ history.n >= 2 /\ history.call = call
    /\ call.mec_a_mutations = <<"Z999X", "G246E">>
    /\ call.sccmec_type = Some(<<"X", "I">>)
    /\ svm_inits > 0
    /\ result.vector = history.result.vector

\* C18: the heuristic fallback is deterministic and side-effect-free: of two
\* successive calls of _heuristic_predict with the same arguments the second
\* returns the probabilities, predictions and confidences of the first, and a
\* call changes no state of the predictor objects, of the knowledge-base
\* tables or of the global model singletons.
C18_HeuristicDeterministic ==
    [][(pc = "ready" /\ call.op \in HeuristicOps) =>
          /\ kb' = kb
          /\ objects' = objects
          /\ svm_model' = svm_model /\ rf_model' = rf_model
          /\ ensemble_model' = ensemble_model
          /\ (history.n = 1 /\ history.call = call) => result' = history.result]_vars

\* C18 witness: the second of two successive equal calls has returned, for an
\* unknown and a high-risk mecA code.
C18_Witness ==
    /\ pc = "done" /\ call.op = "svm_heuristic"
    /\ history.n = 1 /\ history.call = call
    /\ call.mec_a_mutations = <<"Z999X", "G246E">>
    /\ result.raised = ""
    /\ result.predictions = history.result.predictions
    /\ result.predictions["oxacillin"].probability = 69000

\* C19: the two fallback formula sets stay distinct and are selected by model
\* identity: the Random Forest fallback returns
\*   oxacillin   = min(0.92, 0.35 + 0.1*mecA_count + 0.18*has_high_risk_mecA)
\*   vancomycin  = min(0.25, 0.03 + 0.45*has_van + 0.015*total)
\*   ceftaroline = min(0.82, 0.18 + 0.11*PBP2a_count + 0.14*has_high_risk_PBP2a
\*                           + 0.04*mecA_count)
\* under the name "Random Forest (heuristic fallback)", the SVM fallback its
\* own values under "SVM (heuristic fallback)", and neither returns the
\* other's oxacillin or vancomycin probability or the other's name.
C19_FallbackFormulaSets ==
    (Done(HeuristicOps) /\ result.raised = "") =>
        LET m == Len(call.mec_a_mutations)
            p == Len(call.pbp2a_mutations)
            hm == ClaimedFlag(call.mec_a_mutations, KnowledgeBase.HIGH_RISK_MECA)
            hp == ClaimedFlag(call.pbp2a_mutations, KnowledgeBase.HIGH_RISK_PBP2A)
            v == IF ClaimedHasVan(call.additional_genes) THEN 1 ELSE 0
            rf == [model |-> "Random Forest (heuristic fallback)",
                   oxacillin |-> Min(92000, 35000 + 10000 * m + 18000 * hm),
                   vancomycin |-> Min(25000, 3000 + 45000 * v + 1500 * (m + p)),
                   ceftaroline |-> Min(82000, 18000 + 11000 * p + 14000 * hp + 4000 * m)]
            svm == [model |-> "SVM (heuristic fallback)",
                    oxacillin |-> Min(95000, 30000 + 12000 * m + 15000 * hm),
                    vancomycin |-> Min(30000, 5000 + 40000 * v + 2000 * (m + p)),
                    ceftaroline |-> Min(85000, 20000 + 10000 * p + 12000 * hp + 5000 * m)]
            own == IF call.op = "rf_heuristic" THEN rf ELSE svm
            other == IF call.op = "rf_heuristic" THEN svm ELSE rf
        IN  /\ result.model = own.model
            /\ \A a \in Antibiotics : result.predictions[a].probability = own[a]
            /\ result.model # other.model
            /\ result.predictions["oxacillin"].probability # other.oxacillin
            /\ result.predictions["vancomycin"].probability # other.vancomycin

\* C19 witness: the Random Forest fallback has returned for four mecA codes,
\* one of them high-risk, where its uncapped oxacillin value equals the SVM
\* fallback's and only the caps tell them apart.
C19_Witness ==
    /\ Done({"rf_heuristic"}) /\ result.raised = ""
    /\ Len(call.mec_a_mutations) = 4 /\ call.pbp2a_mutations = <<>>
    /\ result.model = "Random Forest (heuristic fallback)"
    /\ result.predictions["oxacillin"].probability = 92000

\* C20: once get_svm_model, get_rf_model or get_ensemble_model has returned an
\* instance, the global keeps that instance for the rest of the process, so
\* that every later call of the accessor returns it.
C20_CachedInstanceKept ==
    pc = "threads" =>
        \A t \in Threads :
            threads[t].at = "done"
                => GlobalOf(threads[t].accessor, Globals) = threads[t].returned

\* C21: the result of predict_resistance_ml carries contributing features
\* computed by the rule of the other paths: up to 6 entries per gene, weight
\* min(1, base + index*0.06) with base 0.45 for mecA and 0.40 for PBP2a, index
\* from 0, the mecA entries before the PBP2a entries.
C21_MlContributingFeatures ==
    (Done({"ml"}) /\ result.raised = "") =>
        result.contributingFeatures
            = ClaimedEntries("mecA", call.mec_a_mutations, 45000)
              \o ClaimedEntries("PBP2a", call.pbp2a_mutations, 40000)

\* The regulatory gene names, as the documentation spells them.
ClaimedRegulatoryNames ==
    {<<"m", "e", "c", "I">>, <<"m", "e", "c", "R", "1">>,
     <<"b", "l", "a", "I">>, <<"b", "l", "a", "R", "1">>}

ClaimedRegulatory(additional_genes) ==
    additional_genes.present
    /\ \E i \in 1..Len(additional_genes.val), name \in ClaimedRegulatoryNames :
           StrUpper(additional_genes.val[i]) = StrUpper(name)

\* C22: in the extracted feature vector the has-van-gene flag is 1 iff at least
\* one accessory gene name contains "van" ignoring case, and the
\* has-regulatory-mutation flag is 1 iff at least one accessory gene name
\* equals, ignoring case, one of mecI, mecR1, blaI, blaR1; with the accessory
\* genes omitted or empty both flags are 0.
C22_GeneFlags ==
    ExtractDone =>
        /\ result.vector[10] = (IF ClaimedHasVan(call.additional_genes) THEN 100000 ELSE 0)
        /\ result.vector[11] = (IF ClaimedRegulatory(call.additional_genes) THEN 100000 ELSE 0)
        /\ (~call.additional_genes.present \/ call.additional_genes.val = <<>>)
               => (result.vector[10] = 0 /\ result.vector[11] = 0)

\* C22 witness: a regulatory gene in capitals beside a gene that is none.
C22_Witness ==
    /\ ExtractDone
    /\ call.additional_genes
           = Some(<< <<"b", "l", "a", "Z">>, <<"M", "E", "C", "R", "1">> >>)
    /\ result.vector[10] = 0
    /\ result.vector[11] = 100000

\* C22 witness: a van gene in mixed case beside a regulatory gene.
C22_WitnessVan ==
    /\ ExtractDone
    /\ call.additional_genes = Some(<<mecI, VanB>>)
    /\ result.vector[10] = 100000
    /\ result.vector[11] = 100000

\* C23: the synthetic training cohort is reproducible under concurrency: when
\* predictor constructions run concurrently in different threads, each of
\* them trains on exactly the cohort that a generation run alone produces
\* from the fixed seed.
C23_CohortReproducible ==
    pc = "cohort" =>
        \A t \in Threads :
            threads[t].at = "done"
                => threads[t].cohort = GenerateTrainingData(Seeded, <<>>).cohort

\* C24: the heuristic fallback is monotone, for the SVM and the Random Forest
\* constants alike: appending one more mutation to the mecA list never lowers
\* the oxacillin, vancomycin or ceftaroline probability, appending one more
\* mutation to the PBP2a list never lowers the vancomycin or ceftaroline
\* probability, and replacing a mecA mutation that is not high-risk by a
\* high-risk one never lowers the oxacillin probability.
C24_HeuristicMonotone ==
    (Done(HeuristicOps) /\ result.raised = "") =>
        LET mec == call.mec_a_mutations
            pbp == call.pbp2a_mutations
            Other(m, p) ==
                IF call.op = "svm_heuristic"
                THEN SvmHeuristicPredict(m, p, call.additional_genes)
                ELSE RfHeuristicPredict(m, p, call.additional_genes)
            NotLower(a, m, p) ==
                result.predictions[a].probability <= Other(m, p).predictions[a].probability
        IN  /\ \A c \in Codes, a \in Antibiotics : NotLower(a, Append(mec, c), pbp)
            /\ \A c \in Codes, a \in {"vancomycin", "ceftaroline"} :
                   NotLower(a, mec, Append(pbp, c))
            /\ \A i \in 1..Len(mec), c \in KnowledgeBase.HIGH_RISK_MECA :
                   mec[i] \notin KnowledgeBase.HIGH_RISK_MECA
                       => NotLower("oxacillin", [mec EXCEPT ![i] = c], pbp)

\* C24 witness: the SVM fallback has returned for one mecA code that is not
\* high-risk; replacing it by G246E raises the oxacillin probability from 0.42
\* to 0.57, appending G246E raises it to 0.69.
C24_Witness ==
    /\ Done({"svm_heuristic"}) /\ result.raised = ""
    /\ call.mec_a_mutations = <<"Z999X">> /\ call.pbp2a_mutations = <<>>
    /\ result.predictions["oxacillin"].probability = 42000
    /\ SvmHeuristicPredict(<<"G246E">>, <<>>, call.additional_genes)
           .predictions["oxacillin"].probability = 57000
    /\ SvmHeuristicPredict(<<"Z999X", "G246E">>, <<>>, call.additional_genes)
           .predictions["oxacillin"].probability = 69000

OxaDone == Done({"oxacillin"}) /\ result.raised = ""

\* C25: in predict_oxacillin_resistance, with no SCCmec type supplied the
\* reported oxacillin probability is the ensemble's and sccmecRisk is absent;
\* with a type supplied the reported probability is
\* min(0.98, 0.7*ensemble_probability + 0.3*sccmec_risk), at most 0.98; in both
\* cases the label is "Resistant" iff the reported probability is strictly
\* greater than 0.5 and the threat level follows from the reported probability
\* with the thresholds 0.75 / 0.5 / 0.25.  (The reported probability is in
\* units of 1/1000000.)
C25_OxacillinAdjustment ==
    OxaDone =>
        LET reported == result.oxacillinResistanceProbability
            ensemble == result.mlModelResults.predictions["oxacillin"].probability
        IN  /\ ~SccmecSupplied(call)
                   => (reported = 10 * ensemble /\ ~result.sccmecRisk.present)
            /\ SccmecSupplied(call)
                   => /\ result.sccmecRisk.present
                      /\ reported = (IF 7 * ensemble + 3 * result.sccmecRisk.val > 980000
                                     THEN 980000
                                     ELSE 7 * ensemble + 3 * result.sccmecRisk.val)
                      /\ reported <= 980000
            /\ (result.prediction = "Resistant") = (reported > 500000)
            /\ result.prediction \in {"Resistant", "Susceptible"}
            /\ result.threatLevel =
                   (IF reported >= 750000 THEN "High"
                    ELSE IF reported >= 500000 THEN "Moderate"
                    ELSE IF reported >= 250000 THEN "Low" ELSE "Very Low")

\* C25 witness: an unknown label is supplied and the ensemble's probability is
\* 0.5: the reported probability is 0.7*0.5 + 0.3*0.5 = 0.5 exactly, which is
\* "Susceptible" and "Moderate".
C25_Witness ==
    /\ OxaDone
    /\ call.sccmec_type = Some(<<"X", "I">>)
    /\ result.mlModelResults.predictions["oxacillin"].probability = 50000
    /\ result.oxacillinResistanceProbability = 500000
    /\ result.prediction = "Susceptible"
    /\ result.threatLevel = "Moderate"

\* C25 witness: no label is supplied and the ensemble's probability is reported.
C25_WitnessAbsent ==
    /\ OxaDone
    /\ call.sccmec_type = Some(<<>>)
    /\ result.oxacillinResistanceProbability = 1000000
    /\ ~result.sccmecRisk.present

\* C26: in predict_oxacillin_resistance every cassette label of its SCCmec
\* risk table (I, II, III, IV, IVa, V) is reachable: supplying the label, with
\* or without a "type" / "type-" prefix, yields that label's own risk score and
\* description, and the reported score is the one the feature extractor
\* assigns to the same label.
C26_OxacillinLabelsReachable ==
    (OxaDone /\ SccmecSupplied(call)) =>
        \A e \in OXA_SCCMEC_RISKS :
            SccmecClean(call.sccmec_type.val) = e.key
                => /\ result.sccmecRisk = [present |-> TRUE, val |-> e.risk]
                   /\ result.sccmecAnalysis = e.note
                   /\ result.sccmecRisk.val
                          = SccmecRisk(KnowledgeBase.SCCMEC_RISK, call.sccmec_type.val)

\* The entries of highRiskMutations that the extractor's sets call for.
ClaimedHighRisk(gene, mutations, high_risk) ==
    LET idx == {i \in 1..Len(mutations) : mutations[i] \in high_risk}
    IN  {[gene |-> gene, mutation |-> mutations[i]] : i \in idx}

\* C27: the highRiskMutations list of predict_oxacillin_resistance holds
\* mecA(m) for exactly the supplied mecA mutations m, and PBP2a(m) for exactly
\* the supplied PBP2a mutations m, that the feature extractor's high-risk sets
\* hold; so the list is non-empty iff one of the extractor's two high-risk
\* flags is 1.
C27_HighRiskConsistent ==
    OxaDone =>
        LET listed == {result.highRiskMutations[i] :
                          i \in 1..Len(result.highRiskMutations)}
            f == ExtractFeatures(kb, call.mec_a_mutations, call.pbp2a_mutations,
                                 call.sccmec_type, call.additional_genes).features
        IN  /\ listed = ClaimedHighRisk("mecA", call.mec_a_mutations,
                                        KnowledgeBase.HIGH_RISK_MECA)
                        \cup ClaimedHighRisk("PBP2a", call.pbp2a_mutations,
                                             KnowledgeBase.HIGH_RISK_PBP2A)
            /\ (result.highRiskMutations # <<>>)
                   = (f.has_high_risk_mecA \/ f.has_high_risk_pbp2a)

MlDone == Done({"ml"}) /\ result.raised = ""

\* C28: in every result of predict_resistance_ml the binary calls and the
\* threat level agree: if any antibiotic's prediction is 1 the threat level is
\* Moderate or High, and if the threat level is Low or Very Low all three
\* predictions are 0.
C28_CallsAgreeWithThreat ==
    MlDone =>
        /\ (\E a \in Antibiotics : result.predictions[a].prediction = 1)
               => result.threatLevel \in {"Moderate", "High"}
        /\ result.threatLevel \in {"Low", "Very Low"}
               => \A a \in Antibiotics : result.predictions[a].prediction = 0

\* C28 witness: the SVM fallback gives oxacillin 0.57 for one high-risk mecA
\* code: the call is 1 and the level Moderate, the other two calls are 0.
C28_Witness ==
    /\ MlDone
    /\ result.model = "SVM (heuristic fallback)"
    /\ result.predictions["oxacillin"].probability = 57000
    /\ result.predictions["oxacillin"].prediction = 1
    /\ result.predictions["vancomycin"].prediction = 0
    /\ result.threatLevel = "Moderate"

\* C28 witness: a largest probability of exactly 0.5 is Moderate with no call.
C28_WitnessBoundary ==
    /\ MlDone
    /\ \A a \in Antibiotics : result.predictions[a].probability = 50000
    /\ \A a \in Antibiotics : result.predictions[a].prediction = 0
    /\ result.threatLevel = "Moderate"

\* C29: for every mutation-pattern string that passes validation,
\* _evolutionary_fallback returns threat level "Moderate": it emits at least
\* one and at most 6 contributing features with weights 0.5 + 0.08*i, whose
\* average lies in [0.5, 0.7], and its confidence is
\* 0.55 + 0.06*min(6, number of mutation tokens it detected), which lies in
\* [0.61, 0.91].
C29_EvolutionaryFallback ==
    (Done({"evolutionary_fallback"}) /\ PassesValidation(call.mutation_patterns)) =>
        LET f == result.contributingFeatures
            n == Len(f)
            tokens == IF result.detected > 6 THEN 6 ELSE result.detected
        IN  /\ result.raised = ""
            /\ result.threatLevel = "Moderate"
            /\ n >= 1 /\ n <= 6
            /\ \A i \in 1..n : f[i].weight = 50000 + 8000 * (i - 1)
            /\ SumWeights(f) >= 50000 * n /\ SumWeights(f) <= 70000 * n
            /\ result.confidenceLevel = 55000 + 6000 * tokens
            /\ result.confidenceLevel >= 61000 /\ result.confidenceLevel <= 91000

\* C29 witness: a valid pattern of MaxTokens tokens: six features, the last of
\* weight 0.9, average 0.7, confidence 0.91.
C29_Witness ==
    /\ Done({"evolutionary_fallback"}) /\ PassesValidation(call.mutation_patterns)
    /\ result.detected = MaxTokens
    /\ Len(result.contributingFeatures) = 6
    /\ result.contributingFeatures[6].weight = 90000
    /\ SumWeights(result.contributingFeatures) = 6 * 70000
    /\ result.confidenceLevel = 91000
    /\ result.threatLevel = "Moderate"

\* C29 witness: a valid pattern whose tokens are parted by ";" only: the
\* validation sees several tokens, the fallback detects one.
C29_WitnessSemicolon ==
    /\ Done({"evolutionary_fallback"}) /\ PassesValidation(call.mutation_patterns)
    /\ Len(StrippedPieces(call.mutation_patterns, {"\n", ",", ";"})) = MaxTokens
    /\ result.detected = 1
    /\ result.confidenceLevel = 61000

\* C30: for every request with at least one mutation, predict_resistance_bayesian
\* returns a result whenever the dataset lookup succeeds: if the language-model
\* call or the post-processing of its reply raises, the function returns the
\* _bayesian_fallback record instead of propagating the error, and that record
\* holds oxacillin, vancomycin and ceftaroline probabilities in [0,1], a threat
\* level that is never "Very Low", a confidenceLevel and the
\* contributing-feature list.  (The confidence is in twelfths of 1/100000.)
C30_BayesianAlwaysAnswers ==
    (/\ Done({"bayesian"})
     /\ Len(call.mec_a_mutations) + Len(call.pbp2a_mutations) >= 1
     /\ call.dataset_ok) =>
        /\ result.raised = ""
        /\ call.llm.kind # "reply" =>
               /\ result.fallback
               /\ \A p \in {result.oxacillinResistanceProbability,
                            result.vancomycinResistanceProbability,
                            result.ceftarolineResistanceProbability} :
                      p >= 0 /\ p <= 100000
               /\ result.threatLevel \in {"Low", "Moderate", "High"}
               /\ result.confidenceLevel >= 12 * 55000
               /\ result.confidenceLevel <= 12 * 95000
               /\ Len(result.contributingFeatures)
                      = (IF Len(call.mec_a_mutations) > 6 THEN 6
                         ELSE Len(call.mec_a_mutations))
                        + (IF Len(call.pbp2a_mutations) > 6 THEN 6
                           ELSE Len(call.pbp2a_mutations))

\* C30 witness: the reply's post-processing raised for a request with more
\* than six codes in each list: the fallback's ceftaroline probability is at
\* its cap and the level is High.
C30_Witness ==
    /\ Done({"bayesian"}) /\ call.dataset_ok
    /\ call.llm.kind = "malformed"
    /\ Len(call.mec_a_mutations) > 6 /\ Len(call.pbp2a_mutations) > 6
    /\ result.raised = "" /\ result.fallback
    /\ result.ceftarolineResistanceProbability = 85000
    /\ result.threatLevel = "High"

\* C30 witness: generate_json raised for a request with one code: the
\* fallback's largest probability is 0.48, level Low.
C30_WitnessLow ==
    /\ Done({"bayesian"}) /\ call.dataset_ok
    /\ call.llm.kind = "raise"
    /\ call.mec_a_mutations = <<>> /\ Len(call.pbp2a_mutations) = 1
    /\ result.raised = "" /\ result.fallback
    /\ result.oxacillinResistanceProbability = 48000
    /\ result.threatLevel = "Low"
====
